---- MODULE Spec2Model ----
(***************************************************************************)
(* Build matching and item scoring of d4-build-matcher                     *)
(* (src/src/api/matchBuilds.ts).                                           *)
(*                                                                         *)
(* Strings are sequences of character codes, so that toLowerCase and       *)
(* localeCompare are computed and not assumed.  An optional value          *)
(* (T | null | undefined) is a sequence of length at most one: None is     *)
(* <<>>, Some(v) is <<v>>.                                                 *)
(*                                                                         *)
(* A value that is used several times is bound by a quantifier over a      *)
(* one-element set ({f(v) : v \in {e}}), so that it is computed once.      *)
(*                                                                         *)
(* Scores are fixed-point numbers: a score of s points is the integer      *)
(* s * Scale.  Scale = 50 keeps weight * 0.5 and                           *)
(* (item_power - 800) / 12.5 integral for integer weights and powers.      *)
(***************************************************************************)
EXTENDS Integers, Sequences, FiniteSets, TLC

VARIABLES item, requirements, scored, slotMax,
          userGear, builds, matches,
          \* the state of App (src/src/App.tsx) and the build fetches in flight;
          \* its gear state is userGear, what it passes to matchBuilds
          appState, playerClass, buildMatches, scanMode,
          selectedBuild, availableBuilds, comparisonAnalysis, loads,
          \* the state of CaptureView, the running handleConfirm and the
          \* previews it has passed to onCapture
          previews, isProcessing, processedCount, error, run, captured

engineVars == <<item, requirements, scored, slotMax, userGear, builds, matches>>

appVars == <<appState, playerClass, buildMatches, scanMode,
             selectedBuild, availableBuilds, comparisonAnalysis, loads>>

viewVars == <<previews, isProcessing, processedCount, error, run, captured>>

vars == <<engineVars, appVars, viewVars>>

----------------------------------------------------------------------------
(* Optional values *)

None == <<>>
Some(v) == <<v>>
IsSome(o) == o # <<>>
Get(o) == o[1]
\* `x || []` and `x?.f(...)` on an optional list
OrEmpty(o) == IF o = None THEN <<>> ELSE o[1]

----------------------------------------------------------------------------
(* Strings *)

\* String.prototype.toLowerCase on ASCII letters
toLowerCase(s) ==
    [i \in 1..Len(s) |-> IF s[i] \in 65..90 THEN s[i] + 32 ELSE s[i]]

\* Array.prototype.includes
includes(list, x) == \E i \in 1..Len(list) : list[i] = x

\* Array.prototype.map(f) with f = name -> toLowerCase
mapLower(list) == [i \in 1..Len(list) |-> toLowerCase(list[i])]

\* Array.prototype.map(a => a.name.toLowerCase())
mapNameLower(list) == [i \in 1..Len(list) |-> toLowerCase(list[i].name)]

Min(a, b) == IF a < b THEN a ELSE b
Max(a, b) == IF a > b THEN a ELSE b

----------------------------------------------------------------------------
(* Program constants *)

Scale == 2 * 25

BIS == 75
ANCESTRAL == 40
STARTER == 15

UNIQUE_BASE == 100
UNIQUE_STEP == 20
ASPECT_POINTS == 50
TEMPER_POINTS == 25
IP_BASE == 800
IP_MAX_POINTS == 10
MIN_MAX_SCORE == 10

----------------------------------------------------------------------------
(* calculateSlotMaxScore *)

RECURSIVE SumMaxAffix(_, _)
SumMaxAffix(affixes, n) ==
    IF n = 0 THEN 0
    ELSE SumMaxAffix(affixes, n - 1) + (affixes[n].weight * Scale * 3) \div 2

\* max = 50 where the code has max += 50
calculateSlotMaxScore_AspectOverwrites(req) ==
    Max((IF IsSome(req.priority_aspects) /\ Len(Get(req.priority_aspects)) > 0
         THEN ASPECT_POINTS * Scale
         ELSE IF IsSome(req.priority_uniques) /\ Len(Get(req.priority_uniques)) > 0
              THEN UNIQUE_BASE * Scale ELSE 0)
        + SumMaxAffix(OrEmpty(req.priority_affixes), Len(OrEmpty(req.priority_affixes)))
        + Len(OrEmpty(req.required_tempers)) * TEMPER_POINTS * Scale
        + IP_MAX_POINTS * Scale,
        MIN_MAX_SCORE * Scale)

calculateSlotMaxScore_NoFloor(req) ==
    (IF IsSome(req.priority_uniques) /\ Len(Get(req.priority_uniques)) > 0
     THEN UNIQUE_BASE * Scale ELSE 0)
    + (IF IsSome(req.priority_aspects) /\ Len(Get(req.priority_aspects)) > 0
       THEN ASPECT_POINTS * Scale ELSE 0)
    + SumMaxAffix(OrEmpty(req.priority_affixes), Len(OrEmpty(req.priority_affixes)))
    + Len(OrEmpty(req.required_tempers)) * TEMPER_POINTS * Scale
    + IP_MAX_POINTS * Scale

calculateSlotMaxScore(req) ==
    LET uniquePart == IF IsSome(req.priority_uniques)
                         /\ Len(Get(req.priority_uniques)) > 0
                      THEN UNIQUE_BASE * Scale ELSE 0
        aspectPart == IF IsSome(req.priority_aspects)
                         /\ Len(Get(req.priority_aspects)) > 0
                      THEN ASPECT_POINTS * Scale ELSE 0
        affixPart  == SumMaxAffix(OrEmpty(req.priority_affixes),
                                  Len(OrEmpty(req.priority_affixes)))
        temperPart == Len(OrEmpty(req.required_tempers)) * TEMPER_POINTS * Scale
        max        == uniquePart + aspectPart + affixPart + temperPart
                      + IP_MAX_POINTS * Scale
    IN Max(max, MIN_MAX_SCORE * Scale)

----------------------------------------------------------------------------
(* scoreItemForSlot *)

\* Array.prototype.findIndex(u => u.toLowerCase() === lower); 0-based, -1 if none
findIndexLower_Last(list, lower) ==
    IF \E i \in 1..Len(list) : toLowerCase(list[i]) = lower
    THEN (CHOOSE i \in 1..Len(list) :
              /\ toLowerCase(list[i]) = lower
              /\ \A j \in (i + 1)..Len(list) : toLowerCase(list[j]) # lower) - 1
    ELSE -1

findIndexLower(list, lower) ==
    IF \E i \in 1..Len(list) : toLowerCase(list[i]) = lower
    THEN (CHOOSE i \in 1..Len(list) :
              /\ toLowerCase(list[i]) = lower
              /\ \A j \in 1..(i - 1) : toLowerCase(list[j]) # lower) - 1
    ELSE -1

\* Unique match: index of the matched priority unique, -1 when none
uniqueMatchIndex(it, req) ==
    IF it.is_unique /\ IsSome(it.unique_id) /\ Len(Get(it.unique_id)) > 0
       /\ IsSome(req.priority_uniques)
    THEN findIndexLower(Get(req.priority_uniques), toLowerCase(Get(it.unique_id)))
    ELSE -1

\* the rank counted from one
uniquePoints_SteeperStep(matchIndex) ==
    IF matchIndex = -1 THEN 0
    ELSE (UNIQUE_BASE - matchIndex * (UNIQUE_STEP + 5)) * Scale

uniquePoints_OneBased(matchIndex) ==
    IF matchIndex # -1
    THEN (UNIQUE_BASE - (matchIndex + 1) * UNIQUE_STEP) * Scale ELSE 0

uniquePoints_Clamped(matchIndex) ==
    IF matchIndex # -1
    THEN Max(0, (UNIQUE_BASE - matchIndex * UNIQUE_STEP) * Scale) ELSE 0

\* score += 100 - matchIndex * 20
uniquePoints(matchIndex) ==
    IF matchIndex # -1 THEN (UNIQUE_BASE - matchIndex * UNIQUE_STEP) * Scale ELSE 0

aspectMatches_IgnoreCase(it, req) ==
    /\ IsSome(it.aspect)
    /\ IsSome(req.priority_aspects)
    /\ includes(mapLower(Get(req.priority_aspects)), toLowerCase(Get(it.aspect).name))

\* Aspect match: item.aspect && priority_aspects?.includes(item.aspect.name)
aspectMatches(it, req) ==
    /\ IsSome(it.aspect)
    /\ IsSome(req.priority_aspects)
    /\ includes(Get(req.priority_aspects), Get(it.aspect).name)

aspectPoints(it, req) == IF aspectMatches(it, req) THEN ASPECT_POINTS * Scale ELSE 0

\* allAffixes: lower-cased names of affixes, then of tempered_affixes
allAffixesOf(it) == mapNameLower(it.affixes) \o mapNameLower(it.tempered_affixes)

affixEntryMatches(it, entry) == includes(allAffixesOf(it), toLowerCase(entry.name))

affixEntryPoints_GreaterUnmatched(it, entry) ==
    (IF affixEntryMatches(it, entry) THEN entry.weight * Scale ELSE 0)
    + (IF includes(mapLower(it.greater_affixes), toLowerCase(entry.name))
       THEN (entry.weight * Scale) \div 2 ELSE 0)

\* One iteration of the priority_affixes loop: the points one entry adds
affixEntryPoints(it, entry) ==
    LET affixNameLower == toLowerCase(entry.name)
        gaLower        == mapLower(it.greater_affixes)
    IN IF affixEntryMatches(it, entry)
       THEN entry.weight * Scale
            + (IF includes(gaLower, affixNameLower)
               THEN (entry.weight * Scale) \div 2 ELSE 0)
       ELSE 0

RECURSIVE SumAffixPoints(_, _, _)
SumAffixPoints(it, entries, n) ==
    IF n = 0 THEN 0
    ELSE SumAffixPoints(it, entries, n - 1) + affixEntryPoints(it, entries[n])

affixPoints(it, req) ==
    SumAffixPoints(it, OrEmpty(req.priority_affixes), Len(OrEmpty(req.priority_affixes)))

\* matchingAffixes++ once per matching entry
countMatchingAffixes(it, req) ==
    LET entries == OrEmpty(req.priority_affixes)
    IN Cardinality({i \in 1..Len(entries) : affixEntryMatches(it, entries[i])})

temperMatches_AnyAffix(it, temper) == includes(allAffixesOf(it), toLowerCase(temper))

\* tempered_affixes.some(a => a.name.toLowerCase() === temper.toLowerCase())
temperMatches(it, temper) ==
    \E i \in 1..Len(it.tempered_affixes) :
        toLowerCase(it.tempered_affixes[i].name) = toLowerCase(temper)

\* score += 25 for every required temper that matches
temperPoints(it, req) ==
    LET tempers == OrEmpty(req.required_tempers)
    IN Cardinality({i \in 1..Len(tempers) : temperMatches(it, tempers[i])})
           * TEMPER_POINTS * Scale

hasAnythingUseful_Always(it, req) == TRUE

\* hasPriorityUnique || hasAspect || matchingAffixes > 0
hasAnythingUseful(it, req) ==
    \/ uniqueMatchIndex(it, req) # -1
    \/ aspectMatches(it, req)
    \/ countMatchingAffixes(it, req) > 0

ipScore_NoCeiling(it) == Max(0, (it.item_power - IP_BASE) * 4)

ipScore_NoFloor(it) == Min(IP_MAX_POINTS * Scale, (it.item_power - IP_BASE) * 4)

\* Math.min(10, Math.max(0, (item_power - 800) / 12.5)); 50 / 12.5 = 4
ipScore(it) ==
    Min(IP_MAX_POINTS * Scale, Max(0, (it.item_power - IP_BASE) * 4))

\* scorePercent >= t / 100, with scorePercent = maxScore > 0 ? score / maxScore : 0
percentAtLeast(score, maxScore, t) ==
    IF maxScore > 0 THEN 100 * score >= t * maxScore ELSE 0 >= t

tierOf_AnyRankBis(score, hasPriorityUnique, matchIndex, matchingAffixes, req) ==
    LET maxScore == calculateSlotMaxScore(req)
    IN IF hasPriorityUnique /\ percentAtLeast(score, maxScore, BIS) THEN "bis"
       ELSE IF hasPriorityUnique \/ percentAtLeast(score, maxScore, ANCESTRAL)
            THEN "ancestral"
       ELSE IF percentAtLeast(score, maxScore, STARTER) \/ matchingAffixes >= 1
            THEN "starter"
       ELSE "not_recommended"

tierOf_PercentOnly(score, hasPriorityUnique, matchIndex, matchingAffixes, req) ==
    LET maxScore == calculateSlotMaxScore(req)
    IN IF hasPriorityUnique /\ matchIndex = 0 /\ percentAtLeast(score, maxScore, BIS)
       THEN "bis"
       ELSE IF percentAtLeast(score, maxScore, ANCESTRAL) THEN "ancestral"
       ELSE IF percentAtLeast(score, maxScore, STARTER) THEN "starter"
       ELSE "not_recommended"

\* Tier from the score percentage and what matched
tierOf(score, hasPriorityUnique, matchIndex, matchingAffixes, req) ==
    LET maxScore == calculateSlotMaxScore(req)
    IN IF hasPriorityUnique /\ matchIndex = 0 /\ percentAtLeast(score, maxScore, BIS)
       THEN "bis"
       ELSE IF hasPriorityUnique \/ percentAtLeast(score, maxScore, ANCESTRAL)
            THEN "ancestral"
       ELSE IF percentAtLeast(score, maxScore, STARTER) \/ matchingAffixes >= 1
            THEN "starter"
       ELSE "not_recommended"

scoreItemForSlot(it, req) ==
    LET totalPriorityAffixes == Len(OrEmpty(req.priority_affixes))
        matchIndex           == uniqueMatchIndex(it, req)
        hasPriorityUnique    == matchIndex # -1
        hasAspect            == aspectMatches(it, req)
        matchingAffixes      == countMatchingAffixes(it, req)
        score == uniquePoints(matchIndex) + aspectPoints(it, req)
                 + affixPoints(it, req) + temperPoints(it, req) + ipScore(it)
    IN IF ~hasAnythingUseful(it, req)
       THEN [score |-> 0, tier |-> "not_recommended",
             hasPriorityUnique |-> FALSE, uniqueRank |-> None,
             matchingAffixes |-> 0,
             totalPriorityAffixes |-> totalPriorityAffixes,
             hasAspect |-> FALSE]
       ELSE [score |-> score,
             tier |-> tierOf(score, hasPriorityUnique, matchIndex,
                             matchingAffixes, req),
             hasPriorityUnique |-> hasPriorityUnique,
             uniqueRank |-> IF hasPriorityUnique THEN Some(matchIndex) ELSE None,
             matchingAffixes |-> matchingAffixes,
             totalPriorityAffixes |-> totalPriorityAffixes,
             hasAspect |-> hasAspect]

----------------------------------------------------------------------------
(* The application around the engine: App and CaptureView as constructed *)

\* useState initial values of CaptureView
ViewIdle ==
    /\ previews = <<>>
    /\ isProcessing = FALSE
    /\ processedCount = 0
    /\ error = None
    /\ run = None
    /\ captured = <<>>

\* useState initial values of App (but for gear, which is userGear), no fetch
\* started
AppIdle ==
    /\ appState = "select-class"
    /\ playerClass = None
    /\ buildMatches = None
    /\ scanMode = "item"
    /\ selectedBuild = None
    /\ availableBuilds = <<>>
    /\ comparisonAnalysis = None
    /\ loads = <<>>

\* no call of the engine under observation
EngineIdle ==
    /\ item = None
    /\ requirements = None
    /\ scored = None
    /\ slotMax = None
    /\ userGear = <<>>
    /\ builds = <<>>
    /\ matches = None

----------------------------------------------------------------------------
(* Input domains *)

SeqsUpTo(S, n) == UNION {[1..k -> S] : k \in 0..n}

\* "a", "A", "b", "B", "c"
NameA == <<97>>
NameAUpper == <<65>>
NameB == <<98>>
NameBUpper == <<66>>
NameC == <<99>>

MaxAffixes == 1
MaxTempered == 2
MaxPrioAffixes == 2
MaxPad == 6

ItemPowers == {775, 850, 950}

Items ==
    [is_unique        : BOOLEAN,
     unique_id        : {None, Some(NameAUpper)},
     affixes          : SeqsUpTo({[name |-> NameAUpper]}, MaxAffixes),
     tempered_affixes : SeqsUpTo({[name |-> NameB]}, MaxTempered),
     greater_affixes  : {<<>>, <<NameA>>},
     aspect           : {None, Some([name |-> NameA]), Some([name |-> NameAUpper])},
     item_power       : ItemPowers]

\* k entries no item carries, in front of the list
Pad(k) == [i \in 1..k |-> NameC]

UniqueLists ==
    {None} \cup
    {Some(Pad(k) \o s) : k \in {0, MaxPad},
                         s \in {<<>>, <<NameA, NameAUpper>>, <<NameB, NameA>>}}

PriorityAffixEntries ==
    {[name |-> NameA, weight |-> 10], [name |-> NameBUpper, weight |-> 60]}

Reqs ==
    [priority_uniques : UniqueLists,
     priority_aspects : {None, Some(<<NameB, NameA>>)},
     priority_affixes : {None} \cup
                        {Some(s) : s \in SeqsUpTo(PriorityAffixEntries, MaxPrioAffixes)},
     required_tempers : {None, Some(<<NameBUpper, NameA>>)}]

----------------------------------------------------------------------------
(* Scoring one item against one slot's requirements *)

InitScore ==
    /\ item \in Items
    /\ requirements \in Reqs
    /\ scored = None
    /\ slotMax = None
    /\ userGear = <<>>
    /\ builds = <<>>
    /\ matches = None
    /\ AppIdle /\ ViewIdle

ScoreItem ==
    /\ scored = None
    /\ scored' = Some(scoreItemForSlot(item, requirements))
    /\ UNCHANGED <<item, requirements, slotMax, userGear, builds, matches>>
    /\ UNCHANGED <<appVars, viewVars>>

NextScore == ScoreItem

Spec == InitScore /\ [][NextScore]_vars

----------------------------------------------------------------------------
(* What the claims talk about, stated on the inputs of the scoring run *)

Done == scored # None
Result == Get(scored)

LowerNamesOf(list) == {toLowerCase(list[i].name) : i \in 1..Len(list)}
LowerSetOf(list) == {toLowerCase(list[i]) : i \in 1..Len(list)}

\* positions of priority_uniques the item's unique_id equals, ignoring case
RefUniqueHits ==
    IF item.is_unique /\ IsSome(item.unique_id) /\ IsSome(requirements.priority_uniques)
    THEN {i \in 1..Len(Get(requirements.priority_uniques)) :
             toLowerCase(Get(requirements.priority_uniques)[i])
                 = toLowerCase(Get(item.unique_id))}
    ELSE {}

\* zero-based rank of the first such entry
RefUniqueRank ==
    (CHOOSE i \in RefUniqueHits : \A j \in RefUniqueHits : i <= j) - 1

RefAspectHit ==
    /\ IsSome(item.aspect)
    /\ \E i \in 1..Len(OrEmpty(requirements.priority_aspects)) :
           Get(requirements.priority_aspects)[i] = Get(item.aspect).name

RefEntries == OrEmpty(requirements.priority_affixes)

\* positions of priority_affixes named like an affix or a tempered affix of the item
RefAffixHits ==
    {i \in 1..Len(RefEntries) :
        toLowerCase(RefEntries[i].name)
            \in LowerNamesOf(item.affixes) \cup LowerNamesOf(item.tempered_affixes)}

RefIsGreater(i) ==
    toLowerCase(RefEntries[i].name) \in LowerSetOf(item.greater_affixes)

RefTempers == OrEmpty(requirements.required_tempers)

\* positions of required_tempers named like a tempered affix of the item
RefTemperHits ==
    {i \in 1..Len(RefTempers) :
        toLowerCase(RefTempers[i]) \in LowerNamesOf(item.tempered_affixes)}

\* the item matches no priority unique, no priority aspect and no priority affix
RefNothingMatches == RefUniqueHits = {} /\ ~RefAspectHit /\ RefAffixHits = {}

RefMaxScore == calculateSlotMaxScore(requirements)

\* C1: an item that matches no priority unique, aspect or affix gets score 0,
\* tier not_recommended and all match flags false/zero, whatever its item_power
\* and its tempered affixes.
C1_UselessItemScoresZero ==
    (Done /\ RefNothingMatches) =>
        /\ Result.score = 0
        /\ Result.tier = "not_recommended"
        /\ Result.hasPriorityUnique = FALSE
        /\ Result.uniqueRank = None
        /\ Result.hasAspect = FALSE
        /\ Result.matchingAffixes = 0

C1_Witness ==
    /\ Done /\ RefNothingMatches
    /\ item.item_power > IP_BASE
    /\ RefTemperHits # {}

\* C2: the tier is 'bis' if and only if a priority unique matched, at rank 0,
\* and score / calculateSlotMaxScore(requirements) >= 0.75.
C2_BisIff ==
    Done =>
        (Result.tier = "bis" <=>
            /\ RefUniqueHits # {}
            /\ RefUniqueRank = 0
            /\ 4 * Result.score >= 3 * RefMaxScore)

C2_Witness == Done /\ Result.tier = "bis"

RefQualifiesBis ==
    RefUniqueHits # {} /\ RefUniqueRank = 0 /\ 4 * Result.score >= 3 * RefMaxScore

\* C3: a scored item that is not short-circuited and not 'bis' is 'ancestral' if
\* it matched a priority unique or reaches 40% of the slot max score, else
\* 'starter' if it reaches 15% or matches a priority affix, else
\* 'not_recommended'; the tier is never 'none'.
C3_LowerTiers ==
    Done =>
        /\ Result.tier # "none"
        /\ (~RefNothingMatches /\ ~RefQualifiesBis) =>
              Result.tier =
                  IF RefUniqueHits # {} \/ 5 * Result.score >= 2 * RefMaxScore
                  THEN "ancestral"
                  ELSE IF 20 * Result.score >= 3 * RefMaxScore \/ RefAffixHits # {}
                  THEN "starter"
                  ELSE "not_recommended"

C3_Witness ==
    /\ Done /\ ~RefNothingMatches /\ ~RefQualifiesBis
    /\ Result.tier = "not_recommended"

\* C8: a unique item whose unique_id equals, ignoring case, an entry of
\* priority_uniques gets hasPriorityUnique, uniqueRank = r (index of the first
\* such entry) and exactly 100 - 20 * r points for it, not clamped at zero;
\* otherwise the unique adds nothing and uniqueRank is null.
C8_UniqueContribution ==
    Done =>
        IF RefUniqueHits # {}
        THEN /\ Result.hasPriorityUnique = TRUE
             /\ Result.uniqueRank = Some(RefUniqueRank)
             /\ Result.score =
                    (100 - 20 * RefUniqueRank) * Scale
                    + aspectPoints(item, requirements) + affixPoints(item, requirements)
                    + temperPoints(item, requirements) + ipScore(item)
        ELSE /\ Result.hasPriorityUnique = FALSE
             /\ Result.uniqueRank = None
             /\ ~RefNothingMatches =>
                    Result.score =
                        aspectPoints(item, requirements) + affixPoints(item, requirements)
                        + temperPoints(item, requirements) + ipScore(item)

C8_Witness ==
    /\ Done /\ RefUniqueHits # {}
    /\ RefUniqueRank > 5
    /\ Cardinality(RefUniqueHits) > 1

RECURSIVE RefAffixSum(_)
RefAffixSum(n) ==
    IF n = 0 THEN 0
    ELSE RefAffixSum(n - 1)
         + (IF n \in RefAffixHits
            THEN RefEntries[n].weight * Scale
                 + (IF RefIsGreater(n) THEN (RefEntries[n].weight * Scale) \div 2 ELSE 0)
            ELSE 0)

\* C9: every priority affix named (ignoring case) like an affix or tempered affix
\* of the item adds its weight and one to matchingAffixes, plus half its weight
\* exactly when the name is also among greater_affixes; other entries, and
\* greater affixes the item does not carry, add nothing.
C9_AffixContribution ==
    Done =>
        /\ Result.matchingAffixes = Cardinality(RefAffixHits)
        /\ ~RefNothingMatches =>
              Result.score =
                  RefAffixSum(Len(RefEntries))
                  + uniquePoints(uniqueMatchIndex(item, requirements))
                  + aspectPoints(item, requirements)
                  + temperPoints(item, requirements) + ipScore(item)

C9_Witness ==
    /\ Done
    /\ \E i \in RefAffixHits : RefIsGreater(i)
    /\ \E i \in RefAffixHits : ~RefIsGreater(i)

\* C10: for an item that is not short-circuited the tempers add 25 points per
\* entry of required_tempers named (ignoring case) like at least one tempered
\* affix of the item, once per entry however many tempered affixes carry the
\* name; base affixes never satisfy a required temper.
C10_TemperContribution ==
    (Done /\ ~RefNothingMatches) =>
        Result.score =
            25 * Scale * Cardinality(RefTemperHits)
            + uniquePoints(uniqueMatchIndex(item, requirements))
            + aspectPoints(item, requirements)
            + affixPoints(item, requirements) + ipScore(item)

C10_Witness ==
    /\ Done /\ ~RefNothingMatches
    /\ \E i \in RefTemperHits :
           Cardinality({k \in 1..Len(item.tempered_affixes) :
               toLowerCase(item.tempered_affixes[k].name) = toLowerCase(RefTempers[i])}) > 1
    /\ \E i \in 1..Len(RefTempers) :
           /\ i \notin RefTemperHits
           /\ toLowerCase(RefTempers[i]) \in LowerNamesOf(item.affixes)

----------------------------------------------------------------------------
(* Scoring against aspect lists of every length *)

AspectLists ==
    {None, Some(<<>>), Some(<<NameA>>), Some(<<NameB, NameA>>),
     Some(<<NameA, NameB, NameA>>)}

AspectReqs ==
    [priority_uniques : {None, Some(<<NameA>>)},
     priority_aspects : AspectLists,
     priority_affixes : {None, Some(<<[name |-> NameA, weight |-> 10]>>)},
     required_tempers : {None}]

InitAspect ==
    /\ item \in Items
    /\ requirements \in AspectReqs
    /\ scored = None
    /\ slotMax = None
    /\ userGear = <<>>
    /\ builds = <<>>
    /\ matches = None
    /\ AppIdle /\ ViewIdle

AspectSpec == InitAspect /\ [][NextScore]_vars

\* C11: the item's aspect adds exactly 50 points and sets hasAspect when its
\* name is, character for character, an element of priority_aspects, however
\* many entries the list has; otherwise it adds nothing and hasAspect is false.
C11_AspectContribution ==
    Done =>
        /\ Result.hasAspect = RefAspectHit
        /\ ~RefNothingMatches =>
              Result.score =
                  (IF RefAspectHit THEN 50 * Scale ELSE 0)
                  + uniquePoints(uniqueMatchIndex(item, requirements))
                  + affixPoints(item, requirements)
                  + temperPoints(item, requirements) + ipScore(item)

\* a listed aspect that occurs twice in a list of three
C11_Witness ==
    /\ Done /\ RefAspectHit
    /\ Result.hasAspect
    /\ Cardinality({i \in 1..Len(OrEmpty(requirements.priority_aspects)) :
           Get(requirements.priority_aspects)[i] = Get(item.aspect).name}) = 2

----------------------------------------------------------------------------
(* Scoring items of every item power *)

PowerValues == {0, 775, 799, 800, 801, 812, 813, 850, 924, 925, 926, 950, 1000}

PowerItems == {[it EXCEPT !.item_power = p] : it \in Items, p \in PowerValues}

PowerReqs ==
    {[priority_uniques |-> None, priority_aspects |-> None,
      priority_affixes |-> None, required_tempers |-> None],
     [priority_uniques |-> Some(<<NameA>>), priority_aspects |-> None,
      priority_affixes |-> Some(<<[name |-> NameA, weight |-> 10]>>),
      required_tempers |-> Some(<<NameB>>)],
     [priority_uniques |-> None, priority_aspects |-> Some(<<NameA>>),
      priority_affixes |-> Some(<<[name |-> NameB, weight |-> 60]>>),
      required_tempers |-> None]}

InitPower ==
    /\ item \in PowerItems
    /\ requirements \in PowerReqs
    /\ scored = None
    /\ slotMax = None
    /\ userGear = <<>>
    /\ builds = <<>>
    /\ matches = None
    /\ AppIdle /\ ViewIdle

PowerSpec == InitPower /\ [][NextScore]_vars

\* what the score holds beyond the unique, aspect, affix and temper points
RefPowerPart ==
    Result.score
    - (uniquePoints(uniqueMatchIndex(item, requirements))
       + aspectPoints(item, requirements) + affixPoints(item, requirements)
       + temperPoints(item, requirements))

\* C12: for an item that is not short-circuited the item power adds
\* (item_power - 800) / 12.5 clamped to [0, 10]: nothing up to 800, 10 from 925
\* on, and the same item with a greater item power never scores less.
C12_ItemPowerContribution ==
    (Done /\ ~RefNothingMatches) =>
        /\ item.item_power <= 800 => RefPowerPart = 0
        /\ item.item_power >= 925 => RefPowerPart = 10 * Scale
        /\ (item.item_power > 800 /\ item.item_power < 925) =>
               \* RefPowerPart / Scale = (item_power - 800) / 12.5
               25 * RefPowerPart = 2 * (item.item_power - 800) * Scale
        /\ \A p \in PowerValues :
               p >= item.item_power =>
                   scoreItemForSlot([item EXCEPT !.item_power = p], requirements).score
                       >= Result.score

C12_Witness ==
    /\ Done /\ ~RefNothingMatches
    /\ item.item_power > 800 /\ item.item_power < 925
    /\ RefPowerPart > 0 /\ RefPowerPart < 10 * Scale

----------------------------------------------------------------------------
(* calculateSlotMaxScore on requirements of every shape: absent and empty    *)
(* lists, positive, zero and negative weights                                *)

SignedAffixEntries ==
    {[name |-> NameA, weight |-> 10], [name |-> NameBUpper, weight |-> 60],
     [name |-> NameA, weight |-> -20], [name |-> NameB, weight |-> 0]}

MaxReqs ==
    [priority_uniques : {None, Some(<<>>), Some(<<NameA>>), Some(<<NameA, NameB>>)},
     priority_aspects : {None, Some(<<>>), Some(<<NameA>>)},
     priority_affixes : {None} \cup
                        {Some(e) : e \in SeqsUpTo(SignedAffixEntries, MaxPrioAffixes)},
     required_tempers : {None, Some(<<>>), Some(<<NameB>>), Some(<<NameB, NameA>>)}]

InitMax ==
    /\ requirements \in MaxReqs
    /\ slotMax = None
    /\ item = None
    /\ scored = None
    /\ userGear = <<>>
    /\ builds = <<>>
    /\ matches = None
    /\ AppIdle /\ ViewIdle

CalcSlotMax ==
    /\ slotMax = None
    /\ slotMax' = Some(calculateSlotMaxScore(requirements))
    /\ UNCHANGED <<item, requirements, scored, userGear, builds, matches>>
    /\ UNCHANGED <<appVars, viewVars>>

NextMax == CalcSlotMax

MaxSpec == InitMax /\ [][NextMax]_vars

MaxDone == slotMax # None
SlotMax == Get(slotMax)

RECURSIVE RefWeightSum(_, _)
RefWeightSum(entries, n) ==
    IF n = 0 THEN 0 ELSE RefWeightSum(entries, n - 1) + entries[n].weight

\* 100 + 50 + 1.5 * weights + 25 per temper + 10, in points * Scale
RefCeiling(req) ==
    (IF Len(OrEmpty(req.priority_uniques)) > 0 THEN 100 * Scale ELSE 0)
    + (IF Len(OrEmpty(req.priority_aspects)) > 0 THEN 50 * Scale ELSE 0)
    + (3 * Scale * RefWeightSum(OrEmpty(req.priority_affixes),
                                Len(OrEmpty(req.priority_affixes)))) \div 2
    + 25 * Scale * Len(OrEmpty(req.required_tempers))
    + 10 * Scale

\* C13: calculateSlotMaxScore is 100 for a non-empty priority_uniques, plus 50
\* for a non-empty priority_aspects, plus 1.5 * weight per priority affix, plus
\* 25 per required temper, plus 10, and never less than 10: so it is at least
\* 10, never zero, also with no requirements and with negative weights.
C13_SlotMaxScore ==
    MaxDone =>
        /\ SlotMax = Max(RefCeiling(requirements), 10 * Scale)
        /\ SlotMax >= 10 * Scale
        /\ SlotMax # 0

\* negative weights bring the sum under 10 and the result is 10
C13_Witness ==
    /\ MaxDone
    /\ RefCeiling(requirements) < 0
    /\ SlotMax = 10 * Scale
    /\ \E i \in 1..Len(OrEmpty(requirements.priority_affixes)) :
           Get(requirements.priority_affixes)[i].weight < 0

\* requirements with one more priority affix, at the end or in front
RefWithAffix(req) ==
    {[req EXCEPT !.priority_affixes = Some(OrEmpty(@) \o <<e>>)] :
        e \in SignedAffixEntries}
    \cup {[req EXCEPT !.priority_affixes = Some(<<e>> \o OrEmpty(@))] :
             e \in SignedAffixEntries}

\* requirements with the weight of one priority affix raised
RefWithRaisedWeight(req) ==
    {[req EXCEPT !.priority_affixes =
          Some([OrEmpty(@) EXCEPT ![i].weight = @ + d])] :
        i \in 1..Len(OrEmpty(req.priority_affixes)), d \in {1, 15, 100}}

\* requirements that gained a unique list, an aspect list or a required temper
RefWithList(req) ==
    (IF Len(OrEmpty(req.priority_uniques)) = 0
     THEN {[req EXCEPT !.priority_uniques = Some(<<NameA>>)]} ELSE {})
    \cup (IF Len(OrEmpty(req.priority_aspects)) = 0
          THEN {[req EXCEPT !.priority_aspects = Some(<<NameA>>)]} ELSE {})
    \cup {[req EXCEPT !.required_tempers = Some(OrEmpty(@) \o <<NameB>>)]}

\* C14, as claimed: adding a priority affix, raising the weight of one, going
\* from no unique list or no aspect list to one, or adding a required temper
\* never lowers calculateSlotMaxScore.
C14_Monotone ==
    MaxDone =>
        \A grown \in RefWithAffix(requirements) \cup RefWithRaisedWeight(requirements)
                     \cup RefWithList(requirements) :
            calculateSlotMaxScore(grown) >= SlotMax

\* C14, amended: adding a priority affix whose weight is not negative, raising
\* the weight of one, going from no unique list or no aspect list to one, or
\* adding a required temper never lowers calculateSlotMaxScore.
C14_MonotoneNonNegative ==
    MaxDone =>
        \A grown \in {g \in RefWithAffix(requirements) :
                         \E e \in SignedAffixEntries :
                             /\ e.weight >= 0
                             /\ \/ g.priority_affixes
                                     = Some(OrEmpty(requirements.priority_affixes) \o <<e>>)
                                \/ g.priority_affixes
                                     = Some(<<e>> \o OrEmpty(requirements.priority_affixes))}
                     \cup RefWithRaisedWeight(requirements)
                     \cup RefWithList(requirements) :
            calculateSlotMaxScore(grown) >= SlotMax

\* requirements with a negative weight whose result every kind of growth raises
C14_Witness ==
    /\ MaxDone
    /\ \E i \in 1..Len(OrEmpty(requirements.priority_affixes)) :
           Get(requirements.priority_affixes)[i].weight < 0
    /\ \A grown \in RefWithRaisedWeight(requirements) \cup RefWithList(requirements) :
           calculateSlotMaxScore(grown) > SlotMax
    /\ Len(OrEmpty(requirements.priority_uniques)) = 0
    /\ Len(OrEmpty(requirements.priority_aspects)) = 0

----------------------------------------------------------------------------
(* Scoring the one priority unique of a slot: priority_uniques = ["A"] and   *)
(* unique items with unique_id "A", every other field and requirement free   *)

CrestItems == {it \in Items : it.is_unique /\ it.unique_id = Some(NameAUpper)}

CrestReqs ==
    [priority_uniques : {Some(<<NameAUpper>>)},
     priority_aspects : {None, Some(<<NameB, NameA>>)},
     priority_affixes : {None} \cup
                        {Some(e) : e \in SeqsUpTo(SignedAffixEntries, MaxPrioAffixes)},
     required_tempers : {None, Some(<<NameBUpper, NameA>>)}]

InitCrest ==
    /\ item \in CrestItems
    /\ requirements \in CrestReqs
    /\ scored = None
    /\ slotMax = None
    /\ userGear = <<>>
    /\ builds = <<>>
    /\ matches = None
    /\ AppIdle /\ ViewIdle

CrestSpec == InitCrest /\ [][NextScore]_vars

RefIsTheOnlyPriorityUnique ==
    /\ item.is_unique
    /\ IsSome(item.unique_id)
    /\ requirements.priority_uniques = Some(<<Get(item.unique_id)>>)

\* C15, as claimed: the item that is the slot's only priority unique scores at
\* least 100, whatever its other fields and the slot's other requirements.
C15_AtLeast100 ==
    (Done /\ RefIsTheOnlyPriorityUnique) => Result.score >= 100 * Scale

\* C15, amended: it scores at least 100 whenever none of the priority affixes
\* the item carries has a negative weight.
C15_AtLeast100NonNegative ==
    (Done /\ RefIsTheOnlyPriorityUnique
          /\ \A i \in RefAffixHits : RefEntries[i].weight >= 0)
        => Result.score >= 100 * Scale

\* the unique bonus alone: nothing else matches and the item power adds nothing,
\* while the slot lists an affix of negative weight
C15_Witness ==
    /\ Done /\ RefIsTheOnlyPriorityUnique
    /\ RefAffixHits = {}
    /\ \E i \in 1..Len(RefEntries) : RefEntries[i].weight < 0
    /\ Result.score = 100 * Scale

----------------------------------------------------------------------------
(* matchBuilds *)

\* Order of two code sequences: -1, 0 or 1
compareCodes(a, b) ==
    LET n    == Min(Len(a), Len(b))
        diff == {i \in 1..n : a[i] # b[i]}
    IN IF diff = {}
       THEN (IF Len(a) < Len(b) THEN -1 ELSE IF Len(a) > Len(b) THEN 1 ELSE 0)
       ELSE LET i == CHOOSE i \in diff : \A j \in diff : i <= j
            IN IF a[i] < b[i] THEN -1 ELSE 1

\* String.prototype.localeCompare on names made of ASCII letters: alphabetical
\* ignoring case first; the same letters are ordered by the first case
\* difference, lower case first
localeCompare(a, b) ==
    LET primary == compareCodes(toLowerCase(a), toLowerCase(b))
        diff    == {i \in 1..Len(a) : a[i] # b[i]}
    IN IF primary # 0 THEN primary
       ELSE IF diff = {} THEN 0
       ELSE LET i == CHOOSE i \in diff : \A j \in diff : i <= j
            IN IF a[i] > b[i] THEN -1 ELSE 1

\* generateNotes: the parts joined into the note text
generateNotes(sc) ==
    [text |-> CASE sc.tier = "bis" -> "BiS"
                [] sc.tier = "ancestral" ->
                       IF sc.hasPriorityUnique /\ sc.uniqueRank # Some(0)
                       THEN "Good unique" ELSE "Ancestral viable"
                [] sc.tier = "starter" -> "Starter viable"
                [] sc.tier = "not_recommended" -> "Not recommended"
                [] OTHER -> "",
     affixes |-> IF sc.hasPriorityUnique /\ sc.uniqueRank = Some(0) THEN None
                 ELSE IF sc.totalPriorityAffixes > 0
                      THEN Some(<<sc.matchingAffixes, sc.totalPriorityAffixes>>)
                      ELSE None,
     aspect |-> sc.hasAspect]

\* a.name.replace(/_/g, ' ')
underscoresToSpaces(name) ==
    [i \in 1..Len(name) |-> IF name[i] = 95 THEN 32 ELSE name[i]]

\* every priority affix where the code takes slice(0, 2)
generateUpgradeSuggestion_AllAffixes(req) ==
    IF IsSome(req.priority_uniques) /\ Len(Get(req.priority_uniques)) > 0
    THEN [kind |-> "unique", names |-> <<Get(req.priority_uniques)[1]>>]
    ELSE IF IsSome(req.priority_affixes) /\ Len(Get(req.priority_affixes)) > 0
    THEN [kind |-> "affixes",
          names |-> [i \in 1..Len(Get(req.priority_affixes)) |->
                        underscoresToSpaces(Get(req.priority_affixes)[i].name)]]
    ELSE [kind |-> "generic", names |-> <<>>]

\* generateUpgradeSuggestion: what the text tells the user to look for
generateUpgradeSuggestion(req) ==
    IF IsSome(req.priority_uniques) /\ Len(Get(req.priority_uniques)) > 0
    THEN [kind |-> "unique", names |-> <<Get(req.priority_uniques)[1]>>]
    ELSE IF IsSome(req.priority_affixes) /\ Len(Get(req.priority_affixes)) > 0
    THEN [kind |-> "affixes",
          names |-> [i \in 1..Min(2, Len(Get(req.priority_affixes))) |->
                        underscoresToSpaces(Get(req.priority_affixes)[i].name)]]
    ELSE [kind |-> "generic", names |-> <<>>]

\* userGear[slot] || []
userItemsOf(gear, slot) == IF slot \in DOMAIN gear THEN gear[slot] ELSE <<>>

bestIndex_FirstItem(items, req, n) == 1

bestIndex_LastWins(items, req, n) ==
    CHOOSE i \in 1..n :
        /\ \A j \in 1..n : scoreItemForSlot(items[j], req).score
                              <= scoreItemForSlot(items[i], req).score
        /\ \A j \in (i + 1)..n : scoreItemForSlot(items[j], req).score
                                    < scoreItemForSlot(items[i], req).score

\* The loop over userItems: index of bestItem after the first n items
RECURSIVE bestIndex(_, _, _)
bestIndex(items, req, n) ==
    IF n = 1 THEN 1
    ELSE CHOOSE r \in {IF scoreItemForSlot(items[n], req).score
                              > scoreItemForSlot(items[b], req).score
                       THEN n ELSE b : b \in {bestIndex(items, req, n - 1)}} : TRUE

\* One iteration of the loop over Object.entries(build.gear)
matchSlot(gear, slot, req) ==
    LET userItems    == userItemsOf(gear, slot)
        slotMaxScore == calculateSlotMaxScore(req)
    IN IF Len(userItems) = 0
       THEN [entry |-> [item |-> None, score |-> 0, maxScore |-> slotMaxScore,
                        notes |-> [text |-> "No item scanned", affixes |-> None,
                                   aspect |-> FALSE],
                        tier |-> "none"],
             missing |-> IF IsSome(req.priority_uniques)
                            /\ Len(Get(req.priority_uniques)) > 0
                         THEN <<[slot |-> slot, item |-> Get(req.priority_uniques)[1],
                                 importance |-> "high"]>>
                         ELSE <<>>,
             upgrade |-> <<>>]
       ELSE CHOOSE r \in
                {[entry |-> [item |-> Some(bestItem), score |-> bestScored.score,
                             maxScore |-> slotMaxScore,
                             notes |-> generateNotes(bestScored),
                             tier |-> bestScored.tier],
                  missing |-> <<>>,
                  upgrade |-> IF bestScored.tier \in {"not_recommended", "starter"}
                              THEN <<[slot |-> slot,
                                      suggestion |-> generateUpgradeSuggestion(req)]>>
                              ELSE <<>>] :
                    bestItem \in {userItems[bestIndex(userItems, req, Len(userItems))]},
                    bestScored \in
                        {scoreItemForSlot(
                             userItems[bestIndex(userItems, req, Len(userItems))], req)}}
                : TRUE

\* a slot without items recorded with no max score
slotResults_NoMaxForEmptySlot(gear, slots) ==
    [n \in 1..Len(slots) |->
        CHOOSE x \in {IF r.entry.item = None THEN [r EXCEPT !.entry.maxScore = 0] ELSE r :
                         r \in {matchSlot(gear, slots[n].slot, slots[n].requirements)}}
            : TRUE]

\* the results of the slot loop, in the order of the build's slots
slotResults(gear, slots) ==
    [n \in 1..Len(slots) |-> matchSlot(gear, slots[n].slot, slots[n].requirements)]

RECURSIVE SumSlotScores(_, _)
SumSlotScores(results, n) ==
    IF n = 0 THEN 0
    ELSE SumSlotScores(results, n - 1) + results[n].entry.score

RECURSIVE SumSlotMaxScores(_, _)
SumSlotMaxScores(slots, n) ==
    IF n = 0 THEN 0
    ELSE SumSlotMaxScores(slots, n - 1) + calculateSlotMaxScore(slots[n].requirements)

\* missingCritical assigned where the code pushes
ConcatMissing_LastOnly(results, n) ==
    IF \E k \in 1..n : results[k].missing # <<>>
    THEN results[CHOOSE k \in 1..n :
                     /\ results[k].missing # <<>>
                     /\ \A j \in (k + 1)..n : results[j].missing = <<>>].missing
    ELSE <<>>

RECURSIVE ConcatMissing(_, _)
ConcatMissing(results, n) ==
    IF n = 0 THEN <<>>
    ELSE ConcatMissing(results, n - 1) \o results[n].missing

RECURSIVE ConcatUpgrades(_, _)
ConcatUpgrades(results, n) ==
    IF n = 0 THEN <<>>
    ELSE ConcatUpgrades(results, n - 1) \o results[n].upgrade

roundedPercentage_Floor(totalScore, maxPossibleScore) ==
    IF maxPossibleScore > 0 THEN (1000 * totalScore) \div maxPossibleScore ELSE 0

\* Math.round(percentage * 10) / 10 with percentage = total / max * 100 (0 when
\* max is not positive), in tenths of a percent; Math.round(x) = floor(x + 1/2)
roundedPercentage(totalScore, maxPossibleScore) ==
    IF maxPossibleScore > 0
    THEN (2000 * totalScore + maxPossibleScore) \div (2 * maxPossibleScore)
    ELSE 0

\* The body of the loop over builds: the match record pushed for one build
matchGear(gear, slots) ==
    CHOOSE r \in
        {LET totalScore       == SumSlotScores(results, Len(results))
             maxPossibleScore == SumSlotMaxScores(slots, Len(slots))
         IN [score |-> totalScore,
             maxScore |-> maxPossibleScore,
             percentage |-> roundedPercentage(totalScore, maxPossibleScore),
             recommendedLoadout |->
                 [s \in {slots[i].slot : i \in 1..Len(slots)} |->
                     LET i == CHOOSE i \in 1..Len(slots) : slots[i].slot = s
                     IN results[i].entry],
             missingCritical |-> ConcatMissing(results, Len(results)),
             upgradePriorities |-> ConcatUpgrades(results, Len(results))] :
            results \in {slotResults(gear, slots)}}
        : TRUE

matchBuild(gear, build) ==
    CHOOSE r \in
        {[buildId |-> build.id, buildName |-> build.name, tier |-> build.tier,
          score |-> m.score, maxScore |-> m.maxScore, percentage |-> m.percentage,
          recommendedLoadout |-> m.recommendedLoadout,
          missingCritical |-> m.missingCritical,
          upgradePriorities |-> m.upgradePriorities,
          sourceUrl |-> build.source_url] : m \in {matchGear(gear, build.gear)}}
        : TRUE

compareMatches_PercentageOnly(a, b) == b.percentage - a.percentage

\* The comparator given to matches.sort: negative when a goes first
compareMatches(a, b) ==
    IF b.percentage # a.percentage
    THEN b.percentage - a.percentage
    ELSE localeCompare(a.buildName, b.buildName)

\* Array.prototype.sort is stable: an element goes after those that do not
\* compare greater than it
insertSorted(sorted, x) ==
    LET k == Cardinality({i \in 1..Len(sorted) : compareMatches(sorted[i], x) <= 0})
    IN SubSeq(sorted, 1, k) \o <<x>> \o SubSeq(sorted, k + 1, Len(sorted))

RECURSIVE sortMatches(_, _)
sortMatches(list, n) ==
    IF n = 0 THEN <<>>
    ELSE CHOOSE r \in {insertSorted(sorted, list[n]) :
                          sorted \in {sortMatches(list, n - 1)}} : TRUE

RECURSIVE SumScoresUpTo(_, _)
SumScoresUpTo(pushed, n) ==
    IF n = 0 THEN 0 ELSE SumScoresUpTo(pushed, n - 1) + pushed[n].score

\* totalScore declared once, outside the loop over builds
matchBuilds_SharedTotal(gear, buildList) ==
    CHOOSE r \in
        {sortMatches([i \in 1..Len(pushed) |->
                         [pushed[i] EXCEPT !.score = SumScoresUpTo(pushed, i)]],
                     Len(pushed)) :
            pushed \in {[i \in 1..Len(buildList) |-> matchBuild(gear, buildList[i])]}}
        : TRUE

matchBuilds(gear, buildList) ==
    CHOOSE r \in
        {sortMatches(pushed, Len(pushed)) :
            pushed \in {[i \in 1..Len(buildList) |-> matchBuild(gear, buildList[i])]}}
        : TRUE

----------------------------------------------------------------------------
(* Inputs of matchBuilds *)

MaxItemsPerSlot == 2
MaxBuilds == 2

\* the top priority unique, power 950
ItemTop ==
    [is_unique |-> TRUE, unique_id |-> Some(NameAUpper), affixes |-> <<>>,
     tempered_affixes |-> <<>>, greater_affixes |-> <<>>, aspect |-> None,
     item_power |-> 950]

\* a rare item with one wanted greater affix, power 850
ItemAffix ==
    [is_unique |-> FALSE, unique_id |-> None, affixes |-> <<[name |-> NameAUpper]>>,
     tempered_affixes |-> <<>>, greater_affixes |-> <<NameA>>, aspect |-> None,
     item_power |-> 850]

\* the same with an aspect no build asks for
ItemAffixTwin == [ItemAffix EXCEPT !.aspect = Some([name |-> NameAUpper])]

MatchItems == {ItemTop, ItemAffix, ItemAffixTwin}

ReqUnique ==
    [priority_uniques |-> Some(<<NameA, NameAUpper>>), priority_aspects |-> None,
     priority_affixes |-> Some(<<[name |-> NameA, weight |-> 10]>>),
     required_tempers |-> None]

ReqAffixes ==
    [priority_uniques |-> None, priority_aspects |-> None,
     priority_affixes |-> Some(<<[name |-> NameA, weight |-> 10],
                                 [name |-> NameBUpper, weight |-> 60]>>),
     required_tempers |-> None]

GearTwoSlots ==
    <<[slot |-> "helm", requirements |-> ReqUnique],
      [slot |-> "ring", requirements |-> ReqAffixes]>>

GearOneSlot == <<[slot |-> "helm", requirements |-> ReqAffixes]>>

MakeBuild(id, name, gear) ==
    [id |-> id, name |-> name, tier |-> "S", source_url |-> "url", gear |-> gear]

\* names "b", "A", "a", "b", "ab"
Catalog ==
    {MakeBuild("b1", NameB, GearTwoSlots),
     MakeBuild("b2", NameAUpper, GearTwoSlots),
     MakeBuild("b3", NameA, GearOneSlot),
     MakeBuild("b4", NameB, GearTwoSlots),
     MakeBuild("b5", NameA \o NameB, <<>>)}

MakeGear(helm, ring) ==
    [s \in (IF IsSome(helm) THEN {"helm"} ELSE {})
           \cup (IF IsSome(ring) THEN {"ring"} ELSE {}) |->
        IF s = "helm" THEN Get(helm) ELSE Get(ring)]

UserGears ==
    {MakeGear(h, r) :
        h \in {None} \cup {Some(l) : l \in SeqsUpTo(MatchItems, MaxItemsPerSlot)},
        r \in {None} \cup {Some(l) : l \in SeqsUpTo(MatchItems, 1)}}

----------------------------------------------------------------------------
(* One call of matchBuilds *)

InitMatch ==
    /\ userGear \in UserGears
    /\ builds \in SeqsUpTo(Catalog, MaxBuilds)
    /\ matches = None
    /\ item = None
    /\ requirements = None
    /\ scored = None
    /\ slotMax = None
    /\ AppIdle /\ ViewIdle

\* the sort applied to the builds array as well
RunMatchBuilds_SortsInput ==
    /\ matches = None
    /\ matches' = Some(matchBuilds(userGear, builds))
    /\ builds' = [i \in 1..Len(builds) |->
                     CHOOSE b \in {builds[k] : k \in 1..Len(builds)} :
                         b.id = matchBuilds(userGear, builds)[i].buildId]
    /\ UNCHANGED <<item, requirements, scored, slotMax, userGear>>
    /\ UNCHANGED <<appVars, viewVars>>

RunMatchBuilds ==
    /\ matches = None
    /\ matches' = Some(matchBuilds(userGear, builds))
    /\ UNCHANGED <<item, requirements, scored, slotMax, userGear, builds>>
    /\ UNCHANGED <<appVars, viewVars>>

NextMatch == RunMatchBuilds

MatchSpec == InitMatch /\ [][NextMatch]_vars

Matched == matches # None
Output == Get(matches)

\* the input build a match record was made from
BuildOf(m) == CHOOSE b \in {builds[i] : i \in 1..Len(builds)} : b.id = m.buildId

SortsBefore(a, b) == localeCompare(a, b) < 0

\* C4, as claimed: every adjacent pair of the result has a strictly greater
\* percentage first, or equal percentages and the first build name sorting
\* strictly before the second, also for builds that share a name.
C4_StrictlySorted ==
    Matched =>
        \A i \in 1..(Len(Output) - 1) :
            \/ Output[i].percentage > Output[i + 1].percentage
            \/ /\ Output[i].percentage = Output[i + 1].percentage
               /\ SortsBefore(Output[i].buildName, Output[i + 1].buildName)

\* C4, amended: every adjacent pair of the result has a strictly greater
\* percentage first, or equal percentages and a first build name that sorts
\* before the second or is the same name.
C4_Sorted ==
    Matched =>
        \A i \in 1..(Len(Output) - 1) :
            \/ Output[i].percentage > Output[i + 1].percentage
            \/ /\ Output[i].percentage = Output[i + 1].percentage
               /\ \/ SortsBefore(Output[i].buildName, Output[i + 1].buildName)
                  \/ Output[i].buildName = Output[i + 1].buildName

C4_Witness ==
    /\ Matched /\ Len(Output) >= 2
    /\ \E i \in 1..(Len(Output) - 1) :
           /\ Output[i].percentage = Output[i + 1].percentage
           /\ Output[i].percentage > 0
           /\ Output[i].buildName = Output[i + 1].buildName
           /\ Output[i].buildId # Output[i + 1].buildId

RefSlotScore(items, req, k) == scoreItemForSlot(items[k], req).score

\* the first position of the user's list that holds a maximal score
RefFirstBest(items, req) ==
    CHOOSE k \in 1..Len(items) :
        /\ \A j \in 1..Len(items) : RefSlotScore(items, req, j) <= RefSlotScore(items, req, k)
        /\ \A j \in 1..(k - 1) : RefSlotScore(items, req, j) < RefSlotScore(items, req, k)

\* C5: for every slot with at least one candidate the recommended item is a
\* candidate of maximal score, the first such in the user's list.
C5_BestItemFirstWins ==
    Matched =>
        \A i \in 1..Len(Output) :
            \A g \in 1..Len(BuildOf(Output[i]).gear) :
                LET slot  == BuildOf(Output[i]).gear[g].slot
                    req   == BuildOf(Output[i]).gear[g].requirements
                    items == userItemsOf(userGear, slot)
                    entry == Output[i].recommendedLoadout[slot]
                IN Len(items) >= 1 =>
                       /\ entry.item = Some(items[RefFirstBest(items, req)])
                       /\ entry.score = RefSlotScore(items, req, RefFirstBest(items, req))

C5_Witness ==
    /\ Matched /\ Len(Output) >= 1
    /\ "helm" \in DOMAIN userGear /\ Len(userGear["helm"]) = 2
    /\ userGear["helm"][1] # userGear["helm"][2]
    /\ \E i \in 1..Len(Output) :
           /\ "helm" \in DOMAIN Output[i].recommendedLoadout
           /\ Output[i].recommendedLoadout["helm"].score > 0
           /\ Output[i].recommendedLoadout["helm"].item = Some(userGear["helm"][1])
           /\ \E g \in 1..Len(BuildOf(Output[i]).gear) :
                  /\ BuildOf(Output[i]).gear[g].slot = "helm"
                  /\ RefSlotScore(userGear["helm"],
                                  BuildOf(Output[i]).gear[g].requirements, 1)
                     = RefSlotScore(userGear["helm"],
                                    BuildOf(Output[i]).gear[g].requirements, 2)

RECURSIVE RefSumLoadoutScores(_, _, _)
RefSumLoadoutScores(m, slots, n) ==
    IF n = 0 THEN 0
    ELSE RefSumLoadoutScores(m, slots, n - 1) + m.recommendedLoadout[slots[n].slot].score

RECURSIVE RefSumMaxScores(_, _)
RefSumMaxScores(slots, n) ==
    IF n = 0 THEN 0
    ELSE RefSumMaxScores(slots, n - 1) + calculateSlotMaxScore(slots[n].requirements)

\* C7: in every match record score is the sum of the recommended items' scores
\* over the build's slots (0 for a slot with no item), maxScore the sum of
\* calculateSlotMaxScore over the same slots, and percentage is
\* 100 * score / maxScore to the nearest tenth, or 0 when maxScore is 0.
C7_Totals ==
    Matched =>
        \A i \in 1..Len(Output) :
            LET m     == Output[i]
                slots == BuildOf(m).gear
            IN /\ m.score = RefSumLoadoutScores(m, slots, Len(slots))
               /\ \A g \in 1..Len(slots) :
                      m.recommendedLoadout[slots[g].slot].item = None
                          => m.recommendedLoadout[slots[g].slot].score = 0
               /\ m.maxScore = RefSumMaxScores(slots, Len(slots))
               /\ IF m.maxScore = 0 THEN m.percentage = 0
                  ELSE \* |1000 * score / maxScore - tenths| <= 1/2, ties upward
                       /\ 2 * (1000 * m.score - m.percentage * m.maxScore) < m.maxScore
                       /\ 2 * (m.percentage * m.maxScore - 1000 * m.score) <= m.maxScore

C7_Witness ==
    /\ Matched
    /\ \E i \in 1..Len(Output) : Output[i].maxScore = 0
    /\ \E i \in 1..Len(Output) :
           /\ Output[i].maxScore > 0
           /\ Output[i].percentage * Output[i].maxScore > 1000 * Output[i].score

----------------------------------------------------------------------------
(* matchBuilds on the builds of the catalog in every order *)

OrderGears ==
    {MakeGear(h, r) :
        h \in {None} \cup {Some(l) : l \in SeqsUpTo(MatchItems, 1)},
        r \in {None, Some(<<ItemAffix>>)}}

InitOrder ==
    /\ userGear \in OrderGears
    /\ builds \in SeqsUpTo(Catalog, MaxBuilds)
    /\ matches = None
    /\ item = None
    /\ requirements = None
    /\ scored = None
    /\ slotMax = None
    /\ AppIdle /\ ViewIdle

OrderSpec == InitOrder /\ [][NextMatch]_vars

\* the orders in which n builds can be processed
RefOrders(n) == {f \in [1..n -> 1..n] : \A i, j \in 1..n : i # j => f[i] # f[j]}

\* every input build has its own record in the output, equal to the record of
\* that build matched alone
RefOnePerBuild ==
    LET alone == [i \in 1..Len(builds) |-> matchBuilds(userGear, <<builds[i]>>)]
    IN /\ Len(Output) = Len(builds)
       /\ \A i \in 1..Len(builds) : Len(alone[i]) = 1
       /\ \E f \in RefOrders(Len(builds)) :
              \A i \in 1..Len(builds) : Output[f[i]] = alone[i][1]

\* C19, as claimed: one record per build, each equal to the record of the
\* build matched alone, so that the builds processed in any order and then
\* sorted give the same result.
C19_AnyOrderSameResult ==
    Matched =>
        /\ RefOnePerBuild
        /\ \A f \in RefOrders(Len(builds)) :
               matchBuilds(userGear, [i \in 1..Len(builds) |-> builds[f[i]]]) = Output

\* C19, amended: one record per build, each equal to the record of the build
\* matched alone; the builds processed in any order and then sorted give the
\* same records with the same percentages and names at every position, and
\* the same result when no two records share both percentage and name.
C19_PerBuildRecords ==
    Matched =>
        /\ RefOnePerBuild
        /\ \A f \in RefOrders(Len(builds)) :
               LET other == matchBuilds(userGear, [i \in 1..Len(builds) |-> builds[f[i]]])
               IN /\ Len(other) = Len(Output)
                  /\ \A k \in 1..Len(Output) :
                         /\ other[k].percentage = Output[k].percentage
                         /\ other[k].buildName = Output[k].buildName
                         /\ \E j \in 1..Len(Output) : other[k] = Output[j]
                  /\ (\A j, k \in 1..Len(Output) :
                          (j # k) => \/ Output[j].percentage # Output[k].percentage
                                     \/ Output[j].buildName # Output[k].buildName)
                         => other = Output

\* two different builds come out in the opposite order of the input
C19_Witness ==
    /\ Matched /\ Len(builds) = 2
    /\ builds[1].id # builds[2].id
    /\ Output[1].buildId = builds[2].id
    /\ Output[1].percentage > Output[2].percentage
    /\ Output[2].percentage > 0

----------------------------------------------------------------------------
(* The calls of scoreItemForSlot and of matchBuilds, for what they leave    *)
(* unchanged                                                                 *)

FrameGears ==
    {MakeGear(Some(l), Some(<<ItemAffix>>)) : l \in SeqsUpTo(MatchItems, MaxItemsPerSlot)}

FrameBuildLists ==
    [1..2 -> {MakeBuild("b1", NameB, GearTwoSlots), MakeBuild("b3", NameA, GearOneSlot)}]

InitFrame ==
    /\ item \in MatchItems
    /\ requirements \in {ReqUnique, ReqAffixes}
    /\ scored = None
    /\ slotMax = None
    /\ userGear \in FrameGears
    /\ builds \in FrameBuildLists
    /\ matches = None
    /\ AppIdle /\ ViewIdle

NextFrame == ScoreItem \/ RunMatchBuilds

FrameSpec == InitFrame /\ [][NextFrame]_vars

\* C20: no call of scoreItemForSlot changes the item or the requirements, and
\* no call of matchBuilds changes userGear or the list of builds.
C20_InputsUnchanged ==
    [][/\ item' = item
       /\ requirements' = requirements
       /\ userGear' = userGear
       /\ builds' = builds]_vars

\* after a call whose sort moved the records, the builds are as they were given
C20_Witness ==
    /\ Done /\ Result.score > 0
    /\ Matched
    /\ builds[1].id # builds[2].id
    /\ Output[1].buildId = builds[2].id
    /\ Output[2].buildId = builds[1].id
    /\ Len(userGear["helm"]) = 2

----------------------------------------------------------------------------
(* matchBuilds on one build whose helm slot has requirements of every shape  *)

\* "a_b"
NameAUnderscoreB == <<97, 95, 98>>

SlotAffixEntries ==
    {[name |-> NameA, weight |-> 10], [name |-> NameBUpper, weight |-> 60],
     [name |-> NameAUnderscoreB, weight |-> 5]}

SlotReqs ==
    [priority_uniques : {None, Some(<<>>), Some(<<NameA, NameB>>),
                         Some(<<NameB, NameA>>)},
     priority_aspects : {None, Some(<<NameAUpper>>)},
     priority_affixes :
         {None}
         \cup {Some(e) : e \in SeqsUpTo(SlotAffixEntries, MaxPrioAffixes)}
         \cup {Some(<<[name |-> NameAUnderscoreB, weight |-> 5],
                      [name |-> NameA, weight |-> 10],
                      [name |-> NameBUpper, weight |-> 60]>>)},
     required_tempers : {None}]

SlotGears ==
    {MakeGear(h, r) :
        h \in {None} \cup {Some(l) : l \in SeqsUpTo(MatchItems, MaxItemsPerSlot)},
        r \in {None, Some(<<ItemTop>>)}}

InitSlot ==
    /\ userGear \in SlotGears
    /\ \E r \in SlotReqs :
           builds = <<MakeBuild("b1", NameA,
                                <<[slot |-> "helm", requirements |-> r],
                                  [slot |-> "ring", requirements |-> ReqUnique]>>)>>
    /\ matches = None
    /\ item = None
    /\ requirements = None
    /\ scored = None
    /\ slotMax = None
    /\ AppIdle /\ ViewIdle

SlotSpec == InitSlot /\ [][NextMatch]_vars

\* positions of a list of per-slot entries that are about one slot
RefEntriesFor(list, slot) == {k \in 1..Len(list) : list[k].slot = slot}

\* C16: a slot for which the user has no item gets exactly one missing-critical
\* entry, naming priority_uniques[0] with importance 'high', when its
\* requirements list a priority unique, and none when they list none; a slot
\* for which the user has an item gets none, even if no item matches.
C16_MissingCritical ==
    Matched =>
        \A i \in 1..Len(Output) :
            \A g \in 1..Len(BuildOf(Output[i]).gear) :
                LET slot    == BuildOf(Output[i]).gear[g].slot
                    req     == BuildOf(Output[i]).gear[g].requirements
                    items   == userItemsOf(userGear, slot)
                    missing == Output[i].missingCritical
                    uniques == OrEmpty(req.priority_uniques)
                IN IF Len(items) = 0 /\ Len(uniques) > 0
                   THEN /\ Cardinality(RefEntriesFor(missing, slot)) = 1
                        /\ \A k \in RefEntriesFor(missing, slot) :
                               /\ missing[k].item = uniques[1]
                               /\ missing[k].importance = "high"
                   ELSE RefEntriesFor(missing, slot) = {}

\* the helm has items that match none of its priority uniques, the ring has none
C16_Witness ==
    /\ Matched
    /\ "helm" \in DOMAIN userGear /\ Len(userGear["helm"]) >= 1
    /\ "ring" \notin DOMAIN userGear
    /\ Len(OrEmpty(builds[1].gear[1].requirements.priority_uniques)) > 0
    /\ Output[1].recommendedLoadout["helm"].tier = "not_recommended"
    /\ Output[1].missingCritical
           = <<[slot |-> "ring", item |-> NameA, importance |-> "high"]>>

\* what an upgrade suggestion names: the first priority unique, else the first
\* two priority affixes (as shown, with spaces for underscores), else nothing
RefSuggestion(req) ==
    IF Len(OrEmpty(req.priority_uniques)) > 0
    THEN [kind |-> "unique", names |-> <<Get(req.priority_uniques)[1]>>]
    ELSE IF Len(OrEmpty(req.priority_affixes)) = 0
    THEN [kind |-> "generic", names |-> <<>>]
    ELSE [kind |-> "affixes",
          names |-> [k \in 1..Min(2, Len(Get(req.priority_affixes))) |->
                        [c \in 1..Len(Get(req.priority_affixes)[k].name) |->
                            IF Get(req.priority_affixes)[k].name[c] = 95 THEN 32
                            ELSE Get(req.priority_affixes)[k].name[c]]]]

\* C17: a slot has an upgrade-priority entry exactly when the user has an item
\* for it and the recommended item's tier is 'not_recommended' or 'starter';
\* the suggestion names the first priority unique if the slot has priority
\* uniques, else the first two priority affixes, else it is the generic text.
C17_UpgradePriorities ==
    Matched =>
        \A i \in 1..Len(Output) :
            \A g \in 1..Len(BuildOf(Output[i]).gear) :
                LET slot     == BuildOf(Output[i]).gear[g].slot
                    req      == BuildOf(Output[i]).gear[g].requirements
                    items    == userItemsOf(userGear, slot)
                    upgrades == Output[i].upgradePriorities
                    tier     == Output[i].recommendedLoadout[slot].tier
                IN IF Len(items) >= 1 /\ tier \in {"not_recommended", "starter"}
                   THEN /\ Cardinality(RefEntriesFor(upgrades, slot)) = 1
                        /\ \A k \in RefEntriesFor(upgrades, slot) :
                               upgrades[k].suggestion = RefSuggestion(req)
                   ELSE RefEntriesFor(upgrades, slot) = {}

\* a starter helm whose slot lists three priority affixes and no unique
C17_Witness ==
    /\ Matched
    /\ Output[1].recommendedLoadout["helm"].tier = "starter"
    /\ Len(OrEmpty(builds[1].gear[1].requirements.priority_uniques)) = 0
    /\ Len(OrEmpty(builds[1].gear[1].requirements.priority_affixes)) = 3
    /\ \E k \in 1..Len(Output[1].upgradePriorities) :
           /\ Output[1].upgradePriorities[k].slot = "helm"
           /\ Len(Output[1].upgradePriorities[k].suggestion.names) = 2

----------------------------------------------------------------------------
(* matchBuilds over builds with profiles (types of src/unnamed/part_001):    *)
(* one ProfileMatch per profile of profile_order, the best one selected.     *)

\* Profile matcher: the match record of one profile, by the loop body of
\* matchBuilds over the profile's gear
matchProfile(gear, build, profileName) ==
    CHOOSE r \in
        {[profileName |-> profileName,
          profileDisplayName |-> build.profiles[profileName].name,
          score |-> m.score, maxScore |-> m.maxScore, percentage |-> m.percentage,
          recommendedLoadout |-> m.recommendedLoadout,
          missingCritical |-> m.missingCritical,
          upgradePriorities |-> m.upgradePriorities] :
            m \in {matchGear(gear, build.profiles[profileName].gear)}}
        : TRUE

bestProfileIndex_LastWins(profileMatches, n) ==
    CHOOSE i \in 1..n :
        /\ \A j \in 1..n : profileMatches[j].percentage <= profileMatches[i].percentage
        /\ \A j \in (i + 1)..n : profileMatches[j].percentage < profileMatches[i].percentage

\* Highest percentage; on a tie the first in profile_order stays
RECURSIVE bestProfileIndex(_, _)
bestProfileIndex(profileMatches, n) ==
    IF n = 1 THEN 1
    ELSE CHOOSE r \in {IF profileMatches[n].percentage > profileMatches[b].percentage
                       THEN n ELSE b : b \in {bestProfileIndex(profileMatches, n - 1)}}
             : TRUE

matchBuildProfiles(gear, build) ==
    CHOOSE r \in
        {LET best == profileMatches[bestProfileIndex(profileMatches,
                                                     Len(profileMatches))]
         IN [buildId |-> build.id, buildName |-> build.name, tier |-> build.tier,
             profileMatches |-> profileMatches,
             bestProfile |-> best.profileName,
             bestPercentage |-> best.percentage,
             sourceUrl |-> build.source_url] :
            profileMatches \in
                {[k \in 1..Len(build.profile_order) |->
                     matchProfile(gear, build, build.profile_order[k])]}}
        : TRUE

\* Best percentage descending, then build name
compareBuildMatches(a, b) ==
    IF b.bestPercentage # a.bestPercentage
    THEN b.bestPercentage - a.bestPercentage
    ELSE localeCompare(a.buildName, b.buildName)

insertSortedBest(sorted, x) ==
    LET k == Cardinality({i \in 1..Len(sorted) : compareBuildMatches(sorted[i], x) <= 0})
    IN SubSeq(sorted, 1, k) \o <<x>> \o SubSeq(sorted, k + 1, Len(sorted))

RECURSIVE sortBuildMatches(_, _)
sortBuildMatches(list, n) ==
    IF n = 0 THEN <<>>
    ELSE CHOOSE r \in {insertSortedBest(sorted, list[n]) :
                          sorted \in {sortBuildMatches(list, n - 1)}} : TRUE

matchBuildsProfiles(gear, buildList) ==
    CHOOSE r \in
        {sortBuildMatches(pushed, Len(pushed)) :
            pushed \in {[i \in 1..Len(buildList) |->
                            matchBuildProfiles(gear, buildList[i])]}}
        : TRUE

MakeProfileBuild(id, name, order, profiles) ==
    [id |-> id, name |-> name, tier |-> "S", source_url |-> "url",
     profile_order |-> order, profiles |-> profiles]

ProfilesOf(starterGear, ancestralGear, mythicGear) ==
    [starter   |-> [name |-> "Starter", gear |-> starterGear],
     ancestral |-> [name |-> "Ancestral", gear |-> ancestralGear],
     mythic    |-> [name |-> "Mythic", gear |-> mythicGear]]

ProfileCatalog ==
    {MakeProfileBuild("p1", NameB, <<"starter", "ancestral">>,
                      ProfilesOf(GearOneSlot, GearTwoSlots, <<>>)),
     MakeProfileBuild("p2", NameAUpper, <<"ancestral", "starter">>,
                      ProfilesOf(GearOneSlot, GearTwoSlots, <<>>)),
     MakeProfileBuild("p3", NameA, <<"ancestral", "starter", "mythic">>,
                      ProfilesOf(GearTwoSlots, GearOneSlot, GearTwoSlots)),
     MakeProfileBuild("p4", NameA \o NameB, <<"mythic">>,
                      ProfilesOf(<<>>, <<>>, <<>>))}

InitProfiles ==
    /\ userGear \in UserGears
    /\ builds \in SeqsUpTo(ProfileCatalog, MaxBuilds)
    /\ matches = None
    /\ item = None
    /\ requirements = None
    /\ scored = None
    /\ slotMax = None
    /\ AppIdle /\ ViewIdle

RunMatchBuildsProfiles ==
    /\ matches = None
    /\ matches' = Some(matchBuildsProfiles(userGear, builds))
    /\ UNCHANGED <<item, requirements, scored, slotMax, userGear, builds>>
    /\ UNCHANGED <<appVars, viewVars>>

NextProfiles == RunMatchBuildsProfiles

ProfileSpec == InitProfiles /\ [][NextProfiles]_vars

\* C6: every build gets one ProfileMatch per profile of profile_order, in that
\* order; bestProfile is the profile of highest percentage, the earliest in
\* profile_order on a tie, bestPercentage is its percentage, and the builds are
\* ranked by bestPercentage.
C6_BestProfile ==
    Matched =>
        /\ \A i \in 1..Len(Output) :
              LET m     == Output[i]
                  order == BuildOf(m).profile_order
              IN /\ Len(m.profileMatches) = Len(order)
                 /\ \A k \in 1..Len(order) :
                        m.profileMatches[k].profileName = order[k]
                 /\ \E k \in 1..Len(order) :
                        /\ m.bestProfile = order[k]
                        /\ m.bestPercentage = m.profileMatches[k].percentage
                        /\ \A j \in 1..Len(order) :
                               m.profileMatches[j].percentage <= m.bestPercentage
                        /\ \A j \in 1..(k - 1) :
                               m.profileMatches[j].percentage < m.bestPercentage
        /\ \A i \in 1..(Len(Output) - 1) :
              Output[i].bestPercentage >= Output[i + 1].bestPercentage

C6_Witness ==
    /\ Matched /\ Len(Output) >= 2
    /\ Output[1].bestPercentage > Output[2].bestPercentage
    /\ \E i \in 1..Len(Output) :
           \E j, k \in 1..Len(Output[i].profileMatches) :
               /\ 1 < j /\ j < k
               /\ Output[i].bestProfile = BuildOf(Output[i]).profile_order[j]
               /\ Output[i].profileMatches[k].percentage = Output[i].bestPercentage

----------------------------------------------------------------------------
(* matchBuilds with absent inputs: no requirements, no items, no builds      *)

\* a slot's requirements with none of the four optional lists
ReqBare ==
    [priority_uniques |-> None, priority_aspects |-> None,
     priority_affixes |-> None, required_tempers |-> None]

AbsentCatalog ==
    {MakeBuild("b1", NameA, <<[slot |-> "helm", requirements |-> ReqBare],
                              [slot |-> "ring", requirements |-> ReqUnique]>>),
     MakeBuild("b2", NameB, GearTwoSlots),
     MakeBuild("b3", NameB, <<>>)}

InitAbsent ==
    /\ userGear \in SlotGears
    /\ builds \in SeqsUpTo(AbsentCatalog, MaxBuilds)
    /\ matches = None
    /\ item = None
    /\ requirements = None
    /\ scored = None
    /\ slotMax = None
    /\ AppIdle /\ ViewIdle

AbsentSpec == InitAbsent /\ [][NextMatch]_vars

RefHasNoList(req) ==
    /\ req.priority_uniques = None /\ req.priority_aspects = None
    /\ req.priority_affixes = None /\ req.required_tempers = None

RECURSIVE RefSumCeilings(_, _)
RefSumCeilings(slots, n) ==
    IF n = 0 THEN 0 ELSE RefSumCeilings(slots, n - 1) + RefCeiling(slots[n].requirements)

\* C21: matchBuilds returns a result for absent optional inputs.  A slot whose
\* requirements have none of the four lists has max score 10 and score 0; a
\* slot for which the user has no item (missing key or empty list) gets the
\* entry {item: null, score 0, tier 'none', notes 'No item scanned'}, its max
\* score is counted in the build's maxScore and every slot of the build still
\* gets an entry; with an empty userGear every build has percentage 0; an
\* empty list of builds gives an empty list.
C21_AbsentInputs ==
    Matched =>
        /\ Len(Output) = Len(builds)
        /\ builds = <<>> => Output = <<>>
        /\ \A i \in 1..Len(Output) :
              LET m     == Output[i]
                  slots == BuildOf(m).gear
              IN /\ DOMAIN m.recommendedLoadout = {slots[g].slot : g \in 1..Len(slots)}
                 /\ m.maxScore = RefSumCeilings(slots, Len(slots))
                 /\ DOMAIN userGear = {} => m.percentage = 0
                 /\ \A g \in 1..Len(slots) :
                        LET entry == m.recommendedLoadout[slots[g].slot]
                        IN /\ RefHasNoList(slots[g].requirements)
                                => entry.maxScore = 10 * Scale /\ entry.score = 0
                           /\ (slots[g].slot \notin DOMAIN userGear
                               \/ userGear[slots[g].slot] = <<>>)
                                => /\ entry.item = None
                                   /\ entry.score = 0
                                   /\ entry.tier = "none"
                                   /\ entry.notes.text = "No item scanned"
                                   /\ entry.maxScore = RefCeiling(slots[g].requirements)

\* nothing scanned, two builds, the first with a slot without requirements
\* followed by a slot with requirements
C21_Witness ==
    /\ Matched
    /\ DOMAIN userGear = {}
    /\ Len(Output) = 2
    /\ \E i \in 1..2 :
           /\ Len(BuildOf(Output[i]).gear) = 2
           /\ RefHasNoList(BuildOf(Output[i]).gear[1].requirements)
           /\ Output[i].recommendedLoadout["ring"].tier = "none"
           /\ Output[i].maxScore > 10 * Scale

----------------------------------------------------------------------------
(* Scores against the slot's max score: one item scored on its own and as    *)
(* the first helm of a gear matched against a build of that one slot         *)

\* the top priority unique with the wanted aspect, greater affix and temper
ItemFull ==
    [is_unique |-> TRUE, unique_id |-> Some(NameA), affixes |-> <<[name |-> NameAUpper]>>,
     tempered_affixes |-> <<[name |-> NameB]>>, greater_affixes |-> <<NameA>>,
     aspect |-> Some([name |-> NameA]), item_power |-> 950]

BoundItems == {ItemTop, ItemAffix, ItemAffixTwin, ItemFull}

BoundAffixEntries ==
    {[name |-> NameA, weight |-> 10], [name |-> NameBUpper, weight |-> 60],
     [name |-> NameA, weight |-> -20]}

BoundReqs ==
    [priority_uniques : {None, Some(<<NameA>>)},
     priority_aspects : {None, Some(<<NameA>>)},
     priority_affixes : {None} \cup
                        {Some(s) : s \in SeqsUpTo(BoundAffixEntries, MaxPrioAffixes)},
     required_tempers : {None, Some(<<NameB>>)}]

InitBound ==
    /\ item \in BoundItems
    /\ requirements \in BoundReqs
    /\ scored = None
    /\ slotMax = None
    /\ \E rest \in SeqsUpTo(BoundItems, MaxItemsPerSlot - 1) :
           userGear = MakeGear(Some(<<item>> \o rest), None)
    /\ builds = <<MakeBuild("b1", NameA,
                            <<[slot |-> "helm", requirements |-> requirements]>>)>>
    /\ matches = None
    /\ AppIdle /\ ViewIdle

NextBound == ScoreItem \/ RunMatchBuilds

BoundSpec == InitBound /\ [][NextBound]_vars

RefWeightsNonNegative(req) ==
    \A k \in 1..Len(OrEmpty(req.priority_affixes)) :
        Get(req.priority_affixes)[k].weight >= 0

\* C23: with affix weights that are not negative, the score scoreItemForSlot
\* gives an item is at most calculateSlotMaxScore of the requirements; so in
\* the output of matchBuilds every slot's score is at most the slot's maxScore
\* and every percentage is at most 100.
C23_ScoreAtMostMax ==
    (Done /\ Matched /\ RefWeightsNonNegative(requirements)) =>
        /\ Result.score <= Output[1].recommendedLoadout["helm"].maxScore
        /\ Result.score <= Max(10 * Scale, RefCeiling(requirements))
        /\ \A i \in 1..Len(Output) :
              /\ Output[i].percentage <= 1000
              /\ \A s \in DOMAIN Output[i].recommendedLoadout :
                     Output[i].recommendedLoadout[s].score
                         <= Output[i].recommendedLoadout[s].maxScore

\* an item that has everything the slot asks for: score = max score, 100 %
C23_Witness ==
    /\ Done /\ Matched
    /\ RefWeightsNonNegative(requirements)
    /\ Len(OrEmpty(requirements.priority_affixes)) >= 1
    /\ Result.score = Output[1].recommendedLoadout["helm"].maxScore
    /\ Result.score = 200 * Scale
    /\ Output[1].percentage = 1000

----------------------------------------------------------------------------
(* matchBuilds on a helm slot whose priority_uniques list is up to           *)
(* MaxPad + 1 entries long, the user's unique being the last of them         *)

\* the unique "A" below item power 800
ItemLow == [ItemTop EXCEPT !.item_power = 775]

RankItems == {ItemTop, ItemLow, ItemAffix}

RankReqs ==
    {[priority_uniques |-> Some(Pad(k) \o <<NameA>>), priority_aspects |-> None,
      priority_affixes |-> a, required_tempers |-> None] :
        k \in 0..MaxPad,
        a \in {None, Some(<<[name |-> NameA, weight |-> 10]>>),
                     Some(<<[name |-> NameA, weight |-> -20]>>)}}

InitRank ==
    /\ userGear \in {MakeGear(h, None) :
                        h \in {None} \cup
                              {Some(l) : l \in SeqsUpTo(RankItems, MaxItemsPerSlot)}}
    /\ \E r \in RankReqs :
           builds = <<MakeBuild("b1", NameA, <<[slot |-> "helm", requirements |-> r]>>)>>
    /\ matches = None
    /\ item = None
    /\ requirements = None
    /\ scored = None
    /\ slotMax = None
    /\ AppIdle /\ ViewIdle

RankSpec == InitRank /\ [][NextMatch]_vars

RefShortListsNonNegativeWeights(build) ==
    \A g \in 1..Len(build.gear) :
        /\ Len(OrEmpty(build.gear[g].requirements.priority_uniques)) <= 6
        /\ RefWeightsNonNegative(build.gear[g].requirements)

----------------------------------------------------------------------------
(* The recommended item among several candidates of a slot *)

\* bis > ancestral > starter > not_recommended
RefTierRank(t) ==
    CASE t = "bis" -> 3
      [] t = "ancestral" -> 2
      [] t = "starter" -> 1
      [] OTHER -> 0

RefFlagged(m, slot) ==
    \E k \in 1..Len(m.upgradePriorities) : m.upgradePriorities[k].slot = slot

\* C25, as claimed: for a slot with several candidates the tier recorded in
\* the recommended loadout is at least as good as the tier scoreItemForSlot
\* gives every candidate of the slot, and the slot is flagged for upgrade
\* only when no candidate is 'ancestral' or 'bis'.
C25_BestTier ==
    Matched =>
        \A i \in 1..Len(Output) :
            \A g \in 1..Len(BuildOf(Output[i]).gear) :
                LET slot  == BuildOf(Output[i]).gear[g].slot
                    req   == BuildOf(Output[i]).gear[g].requirements
                    items == userItemsOf(userGear, slot)
                    entry == Output[i].recommendedLoadout[slot]
                IN Len(items) >= 2 =>
                       \A k \in 1..Len(items) :
                           /\ RefTierRank(entry.tier)
                                  >= RefTierRank(scoreItemForSlot(items[k], req).tier)
                           /\ RefFlagged(Output[i], slot)
                                  => scoreItemForSlot(items[k], req).tier
                                         \notin {"ancestral", "bis"}

\* C25: for a slot with several candidates the score recorded in the
\* recommended loadout is at least the score scoreItemForSlot gives every
\* candidate, and the tier recorded is the tier of the recommended item; the
\* slot is flagged for upgrade exactly when that tier is 'starter' or
\* 'not_recommended', whatever the tiers of the other candidates.
C25_BestScore ==
    Matched =>
        \A i \in 1..Len(Output) :
            \A g \in 1..Len(BuildOf(Output[i]).gear) :
                LET slot  == BuildOf(Output[i]).gear[g].slot
                    req   == BuildOf(Output[i]).gear[g].requirements
                    items == userItemsOf(userGear, slot)
                    entry == Output[i].recommendedLoadout[slot]
                IN Len(items) >= 2 =>
                       /\ \E k \in 1..Len(items) : entry.item = Some(items[k])
                       /\ \A k \in 1..Len(items) :
                              entry.score >= scoreItemForSlot(items[k], req).score
                       /\ entry.tier = scoreItemForSlot(Get(entry.item), req).tier
                       /\ RefFlagged(Output[i], slot)
                              <=> entry.tier \in {"starter", "not_recommended"}

\* two candidates: the recommended one is 'starter' and flagged for upgrade,
\* the other one is a priority unique of low rank, 'ancestral' with less score
C25_Witness ==
    /\ Matched
    /\ "helm" \in DOMAIN userGear /\ Len(userGear["helm"]) = 2
    /\ Output[1].recommendedLoadout["helm"].tier = "starter"
    /\ RefFlagged(Output[1], "helm")
    /\ \E k \in 1..2 :
           LET sc == scoreItemForSlot(userGear["helm"][k],
                                      builds[1].gear[1].requirements)
           IN /\ sc.tier = "ancestral"
              /\ sc.score < Output[1].recommendedLoadout["helm"].score

----------------------------------------------------------------------------
(* The compare flow of App: onCapture in compare mode (App.tsx 513-626)      *)

\* String.prototype.includes: sub occurs in s as a substring
stringIncludes(s, sub) ==
    \E k \in 0..(Len(s) - Len(sub)) : SubSeq(s, k + 1, k + Len(sub)) = sub

\* profilePriority.find(p => availableProfiles.includes(p)) || availableProfiles[0]
bestProfileKey(build) ==
    LET profilePriority == <<"mythic", "sanctified", "ancestral", "starter">>
        found == {k \in 1..4 : includes(build.profile_order, profilePriority[k])}
    IN IF found # {}
       THEN profilePriority[CHOOSE k \in found : \A j \in found : k <= j]
       ELSE build.profile_order[1]

itemTypeToSlot_SameName(type) == type

\* itemTypeToSlot[comparison.newItem.type] || comparison.newItem.type
itemTypeToSlot(type) ==
    IF type \in {"offhand", "shield", "focus", "totem"} THEN "weapon" ELSE type

\* profile.gear[slotType]: the requirements under that key, if any
gearLookup(entries, slot) ==
    IF \E k \in 1..Len(entries) : entries[k].slot = slot
    THEN Some((CHOOSE e \in {entries[k] : k \in 1..Len(entries)} : e.slot = slot)
                  .requirements)
    ELSE None

\* [unique_id, unique_id, name, name].filter(Boolean)
\*     .map(n => n.toLowerCase().replace(/_/g, ' '))
uniqueNamesOf(comparison) ==
    LET present == comparison.newItem.unique_id \o comparison.equippedItem.unique_id
                   \o <<comparison.newItem.name, comparison.equippedItem.name>>
        kept    == SelectSeq(present, LAMBDA n : Len(n) > 0)
    IN [k \in 1..Len(kept) |-> underscoresToSpaces(toLowerCase(kept[k]))]

\* uniqueNames.some(name => slotUniques.some(u => name.includes(u) || u.includes(name)))
slotMatchesUnique(uniqueNames, req) ==
    LET slotUniques == mapLower(OrEmpty(req.priority_uniques))
    IN \E n \in 1..Len(uniqueNames) : \E u \in 1..Len(slotUniques) :
           \/ stringIncludes(uniqueNames[n], slotUniques[u])
           \/ stringIncludes(slotUniques[u], uniqueNames[n])

\* !slotRequirements || newItem.is_unique || equippedItem.is_unique
searchesUniques(direct, comparison) ==
    \/ direct = None
    \/ comparison.newItem.is_unique
    \/ comparison.equippedItem.is_unique

\* The requirements both items are scored against, None where the handler throws
resolveSlotRequirements(comparison, build) ==
    LET entries == build.profiles[bestProfileKey(build)].gear
        direct  == gearLookup(entries, itemTypeToSlot(comparison.newItem.type))
        hits    == {k \in 1..Len(entries) :
                       slotMatchesUnique(uniqueNamesOf(comparison),
                                         entries[k].requirements)}
        found   == IF searchesUniques(direct, comparison) /\ hits # {}
                   THEN Some(entries[CHOOSE k \in hits : \A j \in hits : k <= j]
                                 .requirements)
                   ELSE direct
    IN IF found # None THEN found
       ELSE IF gearLookup(entries, "weapon") # None THEN gearLookup(entries, "weapon")
       ELSE IF Len(entries) > 0 THEN Some(entries[1].requirements)
       ELSE None

recommendationOf_TieKeeps(newItemScore, equippedScore, comparison) ==
    IF newItemScore.score > equippedScore.score THEN "equip" ELSE "keep"

\* 'equip' or 'keep' from the two scores, the item powers on a tie
recommendationOf(newItemScore, equippedScore, comparison) ==
    IF newItemScore.score > equippedScore.score THEN "equip"
    ELSE IF equippedScore.score > newItemScore.score THEN "keep"
    ELSE IF comparison.newItem.item_power > comparison.equippedItem.item_power
         THEN "equip" ELSE "keep"

\* the reasons pushed, by kind, in the order they are pushed
reasonsOf(newItemScore, equippedScore, comparison) ==
    IF newItemScore.score > equippedScore.score
    THEN (IF newItemScore.hasPriorityUnique /\ ~equippedScore.hasPriorityUnique
          THEN <<"New item has a priority unique">> ELSE <<>>)
         \o (IF newItemScore.matchingAffixes > equippedScore.matchingAffixes
             THEN <<"Better affixes">> ELSE <<>>)
         \o (IF comparison.newItem.item_power > comparison.equippedItem.item_power
             THEN <<"Higher item power">> ELSE <<>>)
         \o <<"Build score">>
    ELSE IF equippedScore.score > newItemScore.score
    THEN (IF equippedScore.hasPriorityUnique /\ ~newItemScore.hasPriorityUnique
          THEN <<"Current item has a priority unique">> ELSE <<>>)
         \o (IF equippedScore.matchingAffixes > newItemScore.matchingAffixes
             THEN <<"Better affixes">> ELSE <<>>)
         \o <<"Build score">>
    ELSE <<"Items are roughly equal">>
         \o (IF comparison.newItem.item_power # comparison.equippedItem.item_power
             THEN <<"Item power">> ELSE <<>>)

\* What setComparisonAnalysis receives, given the resolved requirements
analyse(comparison, build, slotRequirements) ==
    CHOOSE a \in
        {[comparison |-> comparison,
          newItemScore |-> n,
          equippedScore |-> e,
          recommendation |-> recommendationOf(n, e, comparison),
          reasons |-> reasonsOf(n, e, comparison),
          profileUsed |-> bestProfileKey(build)] :
            n \in {scoreItemForSlot(comparison.newItem, slotRequirements)},
            e \in {scoreItemForSlot(comparison.equippedItem, slotRequirements)}}
        : TRUE

----------------------------------------------------------------------------
(* CaptureView: handleConfirm (App.tsx 153-186) with the onCapture and       *)
(* onComplete that App passes to it (513-637).  A step from one await to     *)
(* the next is one action.                                                   *)

MaxPreviews == 3
MaxGearItems == 4

NamedItem(it, name, type) ==
    [name |-> name, type |-> type, is_unique |-> it.is_unique,
     unique_id |-> it.unique_id, affixes |-> it.affixes,
     tempered_affixes |-> it.tempered_affixes,
     greater_affixes |-> it.greater_affixes, aspect |-> it.aspect,
     item_power |-> it.item_power]

\* What parseItem returns for an image when it does not throw
parseItem(image) ==
    IF image = 1 THEN NamedItem(ItemTop, NameAUpper, "helm")
    ELSE IF image = 2 THEN NamedItem(ItemAffix, NameB, "helm")
    ELSE NamedItem(ItemAffix, NameC \o <<image>>, "ring")

\* Object.values(gear).flat().length
gearCount ==
    Cardinality({<<s, k>> \in (DOMAIN userGear) \X (1..MaxGearItems) :
                    k <= Len(userGear[s])})

\* setGear(prev => ({...prev, [item.type]: [...(prev[item.type] || []), item]}))
addToGear(prev, it) ==
    [s \in DOMAIN prev \cup {it.type} |->
        IF s = it.type THEN Append(userItemsOf(prev, s), it) ELSE prev[s]]

\* processFiles: one more preview is appended (in compare mode it replaces)
AddPreview ==
    /\ appState = "camera"
    /\ Len(previews) < MaxPreviews
    /\ \E image \in {1, 2} :
           previews' = IF scanMode = "compare" THEN <<image>>
                       ELSE Append(previews, image)
    /\ UNCHANGED <<isProcessing, processedCount, error, run, captured>>
    /\ UNCHANGED <<engineVars, appVars>>

\* removePreview(index)
RemovePreview ==
    /\ appState = "camera"
    /\ \E index \in 1..Len(previews) :
           previews' = SubSeq(previews, 1, index - 1)
                       \o SubSeq(previews, index + 1, Len(previews))
    /\ UNCHANGED <<isProcessing, processedCount, error, run, captured>>
    /\ UNCHANGED <<engineVars, appVars>>

\* handleConfirm up to the first await: onCapture(previews[0]) is called.  run
\* holds its locals (previews is the array of the render it was created in)
\* and stays, with returned set, when it has returned.
HandleConfirm ==
    /\ appState = "camera"
    /\ ~isProcessing
    /\ Len(previews) > 0
    /\ gearCount + Len(previews) <= MaxGearItems
    /\ isProcessing' = TRUE
    /\ processedCount' = 0
    /\ error' = None
    /\ run' = Some([previews |-> previews, i |-> 0,
                    successCount |-> 0, errorCount |-> 0, returned |-> FALSE])
    /\ captured' = <<previews[1]>>
    /\ UNCHANGED previews
    /\ UNCHANGED <<engineVars, appVars>>

\* handleConfirm is suspended at await onCapture(...)
awaiting == run # None /\ ~Get(run).returned

\* the loop stopping at the first capture that fails
continueConfirm_StopAtFailure(ok, stateAfterCapture) ==
    LET r == Get(run)
        n == IF ok THEN Len(r.previews) ELSE r.i + 1
        s == r.successCount + (IF ok THEN 1 ELSE 0)
        e == r.errorCount + (IF ok THEN 0 ELSE 1)
    IN /\ processedCount' = r.i + 1
       /\ IF r.i + 1 < n
          THEN /\ run' = Some([r EXCEPT !.i = r.i + 1,
                                        !.successCount = s, !.errorCount = e])
               /\ captured' = Append(captured, r.previews[r.i + 2])
               /\ UNCHANGED <<isProcessing, error>>
               /\ appState' = stateAfterCapture
          ELSE /\ run' = Some([r EXCEPT !.i = r.i + 1, !.successCount = s,
                                        !.errorCount = e, !.returned = TRUE])
               /\ UNCHANGED captured
               /\ isProcessing' = FALSE
               /\ error' = IF e > 0 /\ s > 0
                           THEN Some([text |-> "image(s) failed to process, succeeded",
                                      errorCount |-> e, successCount |-> s])
                           ELSE IF e > 0
                           THEN Some([text |-> "All image(s) failed to process",
                                      errorCount |-> e, successCount |-> s])
                           ELSE error
               /\ appState' = IF e > 0 THEN stateAfterCapture
                              ELSE IF scanMode = "compare" THEN "compare-result"
                              ELSE "inventory"

\* handleConfirm from the settling of onCapture(previews[i]) to the next
\* await, or to its end: the counters, the next call of onCapture, and after
\* the last preview isProcessing, the error message or onComplete.  ok tells
\* whether the capture succeeded, stateAfterCapture is appState as onCapture
\* left it.
continueConfirm(ok, stateAfterCapture) ==
    LET r == Get(run)
        n == Len(r.previews)
        s == r.successCount + (IF ok THEN 1 ELSE 0)
        e == r.errorCount + (IF ok THEN 0 ELSE 1)
    IN /\ processedCount' = r.i + 1
       /\ IF r.i + 1 < n
          THEN /\ run' = Some([r EXCEPT !.i = r.i + 1,
                                        !.successCount = s, !.errorCount = e])
               /\ captured' = Append(captured, r.previews[r.i + 2])
               /\ UNCHANGED <<isProcessing, error>>
               /\ appState' = stateAfterCapture
          ELSE /\ run' = Some([r EXCEPT !.i = r.i + 1, !.successCount = s,
                                        !.errorCount = e, !.returned = TRUE])
               /\ UNCHANGED captured
               /\ isProcessing' = FALSE
               /\ error' = IF e > 0 /\ s > 0
                           THEN Some([text |-> "image(s) failed to process, succeeded",
                                      errorCount |-> e, successCount |-> s])
                           ELSE IF e > 0
                           THEN Some([text |-> "All image(s) failed to process",
                                      errorCount |-> e, successCount |-> s])
                           ELSE error
               /\ appState' = IF e > 0 THEN stateAfterCapture
                              ELSE IF scanMode = "compare" THEN "compare-result"
                              ELSE "inventory"

\* onCapture in item mode resolves: parseItem returned, the item is added
ItemCaptured ==
    /\ awaiting
    /\ scanMode = "item"
    /\ userGear' = addToGear(userGear, parseItem(Get(run).previews[Get(run).i + 1]))
    /\ continueConfirm(TRUE, appState)
    /\ UNCHANGED previews
    /\ UNCHANGED <<item, requirements, scored, slotMax, builds, matches>>
    /\ UNCHANGED <<playerClass, buildMatches, scanMode, selectedBuild,
                   availableBuilds, comparisonAnalysis, loads>>

\* the comparisons parseComparison can return
CompareItems ==
    {NamedItem(ItemTop, NameA, "helm"),
     NamedItem(ItemAffix, NameC, "helm"),
     NamedItem([ItemAffix EXCEPT !.affixes = <<>>], NameC, "helm"),
     NamedItem([ItemAffix EXCEPT !.affixes = <<>>, !.item_power = 950], NameC, "helm"),
     NamedItem([ItemAffix EXCEPT !.item_power = 950], NameB, "offhand"),
     NamedItem([ItemTop EXCEPT !.unique_id = Some(NameBUpper)], NameB, "shield")}

Comparisons == [newItem : CompareItems, equippedItem : CompareItems]

\* onCapture in compare mode settles after parseComparison returned: the
\* analysis is stored and the result shown, or the handler throws because the
\* profile has no requirements at all
CompareCaptured ==
    /\ awaiting
    /\ scanMode = "compare"
    /\ selectedBuild # None
    /\ \E comparison \in Comparisons :
           LET slotRequirements ==
                   resolveSlotRequirements(comparison, Get(selectedBuild))
           IN IF slotRequirements # None
              THEN /\ comparisonAnalysis' =
                          Some(analyse(comparison, Get(selectedBuild),
                                       Get(slotRequirements)))
                   /\ continueConfirm(TRUE, "compare-result")
              ELSE /\ UNCHANGED comparisonAnalysis
                   /\ continueConfirm(FALSE, appState)
    /\ UNCHANGED previews
    /\ UNCHANGED engineVars
    /\ UNCHANGED <<playerClass, buildMatches, scanMode, selectedBuild,
                   availableBuilds, loads>>

\* parseItem or parseComparison throws (the request fails or reports no
\* success): onCapture rejects
CaptureFailed ==
    /\ awaiting
    /\ continueConfirm(FALSE, appState)
    /\ UNCHANGED previews
    /\ UNCHANGED engineVars
    /\ UNCHANGED <<playerClass, buildMatches, scanMode, selectedBuild,
                   availableBuilds, comparisonAnalysis, loads>>

----------------------------------------------------------------------------
(* The capture view open on a class with a selected build *)

\* the builds on offer: b2 and b1 in one class, s1 in another, and a build
\* without any gear
CompareCatalog ==
    LET ReqShield ==
            [priority_uniques |-> Some(<<NameB>>), priority_aspects |-> None,
             priority_affixes |-> None, required_tempers |-> None]
        GearWeapons ==
            <<[slot |-> "helm", requirements |-> ReqUnique],
              [slot |-> "weapon", requirements |-> ReqAffixes],
              [slot |-> "offhand", requirements |-> ReqShield]>>
        GearRingFirst ==
            <<[slot |-> "ring", requirements |-> ReqUnique],
              [slot |-> "helm", requirements |-> ReqAffixes]>>
        GearRingOnly == <<[slot |-> "ring", requirements |-> ReqAffixes]>>
    IN {MakeProfileBuild("b1", NameA, <<"starter", "mythic">>,
                         ProfilesOf(GearRingOnly, <<>>, GearWeapons)),
        MakeProfileBuild("b2", NameB, <<"ancestral", "starter">>,
                         ProfilesOf(GearWeapons, GearRingFirst, <<>>)),
        MakeProfileBuild("s1", NameC, <<"starter">>,
                         ProfilesOf(GearRingOnly, <<>>, <<>>)),
        MakeProfileBuild("n1", NameC, <<"mythic">>, ProfilesOf(<<>>, <<>>, <<>>))}

\* The camera view just opened by Scan Gear or by Compare Items
InitCapture ==
    /\ EngineIdle
    /\ ViewIdle
    /\ appState = "camera"
    /\ playerClass = Some("barbarian")
    /\ buildMatches = None
    /\ availableBuilds = <<>>
    /\ comparisonAnalysis = None
    /\ loads = <<>>
    /\ \/ scanMode = "item" /\ selectedBuild = None
       \/ scanMode = "compare" /\ selectedBuild \in {Some(b) : b \in CompareCatalog}

NextCapture ==
    \/ AddPreview
    \/ RemovePreview
    \/ HandleConfirm
    \/ ItemCaptured
    \/ CompareCaptured
    \/ CaptureFailed

\* every awaited parseItem / parseComparison request settles: it fails, or it
\* returns an item or a comparison
CaptureSpec ==
    /\ InitCapture
    /\ [][NextCapture]_vars
    /\ WF_vars(CaptureFailed \/ ItemCaptured \/ CompareCaptured)

Analysed == comparisonAnalysis # None
Analysis == Get(comparisonAnalysis)

\* C30: the compare flow recommends 'equip' exactly when the new item's score
\* is strictly greater than the equipped item's, or the scores are equal and
\* the new item's item_power is strictly greater; otherwise it recommends
\* 'keep'.  The list of reasons is never empty.
C30_Recommendation ==
    Analysed =>
        LET new      == Analysis.comparison.newItem
            equipped == Analysis.comparison.equippedItem
            better   == \/ Analysis.newItemScore.score > Analysis.equippedScore.score
                        \/ /\ Analysis.newItemScore.score = Analysis.equippedScore.score
                           /\ new.item_power > equipped.item_power
        IN /\ Analysis.recommendation \in {"equip", "keep"}
           /\ Analysis.recommendation = "equip" <=> better
           /\ Len(Analysis.reasons) >= 1

\* two items of score 0, the new one of higher item power: 'equip'
C30_Witness ==
    /\ Analysed
    /\ Analysis.newItemScore.score = Analysis.equippedScore.score
    /\ Analysis.comparison.newItem.item_power
           > Analysis.comparison.equippedItem.item_power
    /\ Analysis.recommendation = "equip"
    /\ Len(Analysis.reasons) = 2

\* offhand, shield, focus and totem are the build's weapon slot
RefSlotOf(type) ==
    CASE type = "offhand" -> "weapon"
      [] type = "shield" -> "weapon"
      [] type = "focus" -> "weapon"
      [] type = "totem" -> "weapon"
      [] OTHER -> type

RefProfileGear == Get(selectedBuild).profiles[Analysis.profileUsed].gear

\* positions of the slot the new item's type maps to
RefDirect == {k \in 1..Len(RefProfileGear) :
                 RefProfileGear[k].slot = RefSlotOf(Analysis.comparison.newItem.type)}

\* positions of the slots one of whose priority uniques matches a unique id or
\* a name of the two items
RefUniqueSlots ==
    {k \in 1..Len(RefProfileGear) :
        slotMatchesUnique(uniqueNamesOf(Analysis.comparison),
                          RefProfileGear[k].requirements)}

RefScoredAgainst(req) ==
    /\ Analysis.newItemScore = scoreItemForSlot(Analysis.comparison.newItem, req)
    /\ Analysis.equippedScore = scoreItemForSlot(Analysis.comparison.equippedItem, req)

\* C22, as claimed: the new item's type maps to a build slot (offhand, shield,
\* focus, totem to 'weapon', every other type to itself), and the unique-name
\* search is used only when that slot has no requirements: whenever it has,
\* both items are scored against them.
C22_SearchOnlyWhenNotFound ==
    Analysed =>
        \A k \in RefDirect : RefScoredAgainst(RefProfileGear[k].requirements)

\* C22: the new item's type maps to a build slot (offhand, shield, focus, totem
\* to 'weapon', every other type to itself); the unique-name search across the
\* profile's slots is used when that slot has no requirements or when one of
\* the two items is unique, and its first matching slot, if any, replaces the
\* direct one; failing both, the weapon slot or the profile's first slot is
\* used.  Both items are scored against the same requirements.
C22_Resolution ==
    Analysed =>
        LET unique == \/ Analysis.comparison.newItem.is_unique
                      \/ Analysis.comparison.equippedItem.is_unique
            first(S) == CHOOSE k \in S : \A j \in S : k <= j
            weapon   == {k \in 1..Len(RefProfileGear) : RefProfileGear[k].slot = "weapon"}
            used     == IF (RefDirect = {} \/ unique) /\ RefUniqueSlots # {}
                        THEN first(RefUniqueSlots)
                        ELSE IF RefDirect # {} THEN first(RefDirect)
                        ELSE IF weapon # {} THEN first(weapon)
                        ELSE 1
        IN /\ Len(RefProfileGear) >= 1
           /\ RefScoredAgainst(RefProfileGear[used].requirements)

\* a unique shield compared on a profile that has a weapon slot: the search
\* finds it among the offhand slot's priority uniques
C22_Witness ==
    /\ Analysed
    /\ Analysis.comparison.newItem.type = "shield"
    /\ Analysis.comparison.newItem.is_unique
    /\ ~Analysis.comparison.equippedItem.is_unique
    /\ RefDirect # {}
    /\ RefUniqueSlots # {}
    /\ RefDirect \cap RefUniqueSlots = {}
    /\ Analysis.newItemScore.hasPriorityUnique

Confirmed == run # None
Batch == Get(run).previews

\* what holds of a Confirm press from its first await to its end
RefConfirmRun ==
    Confirmed =>
        IF ~Get(run).returned
        THEN \* one capture at a time, in index order
             /\ isProcessing
             /\ Get(run).i < Len(Batch)
             /\ processedCount = Get(run).i
             /\ Get(run).successCount + Get(run).errorCount = Get(run).i
             /\ captured = SubSeq(Batch, 1, Get(run).i + 1)
        ELSE \* every preview was passed once, whatever failed
             /\ captured = Batch
             /\ Get(run).successCount + Get(run).errorCount = Len(Batch)
             /\ processedCount = Len(Batch)
             /\ ~isProcessing \/ (appState = "camera" /\ awaiting)
             /\ IF Get(run).errorCount = 0
                THEN appState = (IF scanMode = "compare" THEN "compare-result"
                                 ELSE "inventory")
                ELSE /\ appState = "camera"
                     /\ error # None
                     /\ Get(error).errorCount = Get(run).errorCount
                     /\ Get(error).successCount = Get(run).successCount

----------------------------------------------------------------------------
(* C27: Confirm pressed again on the same previews                           *)

\* The camera view in item mode with the files selected, different images and
\* at least two of them, and nothing scanned yet
InitRetry ==
    /\ EngineIdle
    /\ appState = "camera"
    /\ playerClass = Some("barbarian")
    /\ buildMatches = None
    /\ scanMode = "item"
    /\ selectedBuild = None
    /\ availableBuilds = <<>>
    /\ comparisonAnalysis = None
    /\ loads = <<>>
    /\ previews \in {p \in SeqsUpTo(1..MaxPreviews, MaxPreviews) :
                        /\ Len(p) >= 2
                        /\ \A j, k \in 1..Len(p) : j # k => p[j] # p[k]}
    /\ isProcessing = FALSE
    /\ processedCount = 0
    /\ error = None
    /\ run = None
    /\ captured = <<>>

\* the previews stay as selected: only Confirm and the captures act
NextRetry ==
    \/ HandleConfirm
    \/ ItemCaptured
    \/ CaptureFailed

RetrySpec == InitRetry /\ [][NextRetry]_vars

\* the number of inventory items that came from this image
RefItemsFrom(image) ==
    Cardinality({<<s, k>> \in (DOMAIN userGear) \X (1..MaxGearItems) :
                    k <= Len(userGear[s]) /\ userGear[s][k] = parseItem(image)})

\* C27: in item-scan mode, with the selected previews fixed, each preview adds
\* at most one item to the inventory whatever the sequence of Confirm presses.
C27_AtMostOneItemPerPreview ==
    \A k \in 1..Len(previews) : RefItemsFrom(previews[k]) <= 1

\* the second Confirm after a partial failure: the first preview, whose capture
\* had succeeded, is in the inventory twice
C27_Resubmitted ==
    /\ run # None /\ Get(run).returned
    /\ error = None
    /\ appState = "inventory"
    /\ RefItemsFrom(previews[1]) = 2

----------------------------------------------------------------------------
(* App: class selection, the loading of the builds and the inventory view    *)
(* (App.tsx 320-471, 636-646, 812-922)                                       *)

MaxLoads == 2

\* The builds the index of a class and its build files hold, in index order
fetchBuilds(cls) ==
    LET file(id) == CHOOSE b \in CompareCatalog : b.id = id
    IN IF cls = "barbarian" THEN <<file("b2"), file("b1")>> ELSE <<file("s1")>>

\* builds.sort((a, b) => a.name.localeCompare(b.name)) on the first n builds
RECURSIVE sortBuildsByName(_, _)
sortBuildsByName(list, n) ==
    IF n = 0 THEN <<>>
    ELSE LET sorted == sortBuildsByName(list, n - 1)
             k == Cardinality({i \in 1..Len(sorted) :
                                  localeCompare(sorted[i].name, list[n].name) <= 0})
         IN SubSeq(sorted, 1, k) \o <<list[n]>> \o SubSeq(sorted, k + 1, Len(sorted))

\* What a load of the class passes to setAvailableBuilds
loadedBuilds(cls) == sortBuildsByName(fetchBuilds(cls), Len(fetchBuilds(cls)))

\* CaptureView is mounted anew
mountCaptureView ==
    /\ previews' = <<>>
    /\ isProcessing' = FALSE
    /\ processedCount' = 0
    /\ error' = None
    /\ run' = None
    /\ captured' = <<>>

\* handleClassSelect(cls); the effect on playerClass starts loadBuildsForClass
HandleClassSelect ==
    /\ appState = "select-class"
    /\ Len(loads) < MaxLoads
    /\ \E cls \in {"barbarian", "sorcerer"} :
           /\ playerClass' = Some(cls)
           /\ loads' = Append(loads, [cls |-> cls, status |-> "pending"])
    /\ appState' = "inventory"
    /\ UNCHANGED <<buildMatches, scanMode, selectedBuild, availableBuilds,
                   comparisonAnalysis>>
    /\ UNCHANGED <<engineVars, viewVars>>

\* loadBuildsForClass resumes after its fetches: the sorted builds are stored,
\* or a fetch failed and the catch only logs
LoadSettles ==
    \E k \in 1..Len(loads) :
        /\ loads[k].status = "pending"
        /\ \E ok \in BOOLEAN :
               /\ loads' = [loads EXCEPT ![k].status = IF ok THEN "loaded" ELSE "failed"]
               /\ availableBuilds' = IF ok THEN loadedBuilds(loads[k].cls)
                                     ELSE availableBuilds
        /\ UNCHANGED <<appState, playerClass, buildMatches, scanMode, selectedBuild,
                       comparisonAnalysis>>
        /\ UNCHANGED <<engineVars, viewVars>>

\* the Change Class button of the header, which the camera overlay covers
ChangeClass ==
    /\ playerClass # None
    /\ appState # "camera"
    /\ appState' = "select-class"
    /\ playerClass' = None
    /\ userGear' = <<>>
    /\ buildMatches' = None
    /\ UNCHANGED <<scanMode, selectedBuild, availableBuilds, comparisonAnalysis, loads>>
    /\ UNCHANGED <<item, requirements, scored, slotMax, builds, matches>>
    /\ UNCHANGED viewVars

\* the build select: availableBuilds.find(b => b.id === value) || null
SelectBuild ==
    /\ appState = "inventory"
    /\ \E value \in {availableBuilds[k].id : k \in 1..Len(availableBuilds)} \cup {""} :
           selectedBuild' =
               IF value = "" THEN None
               ELSE Some(availableBuilds[
                        CHOOSE k \in 1..Len(availableBuilds) :
                            /\ availableBuilds[k].id = value
                            /\ \A j \in 1..(k - 1) : availableBuilds[j].id # value])
    /\ UNCHANGED <<appState, playerClass, buildMatches, scanMode, availableBuilds,
                   comparisonAnalysis, loads>>
    /\ UNCHANGED <<engineVars, viewVars>>

\* Scan Gear
OpenScan ==
    /\ appState = "inventory"
    /\ scanMode' = "item"
    /\ appState' = "camera"
    /\ mountCaptureView
    /\ UNCHANGED <<playerClass, buildMatches, selectedBuild, availableBuilds,
                   comparisonAnalysis, loads>>
    /\ UNCHANGED engineVars

\* Compare Items, shown when a build is selected, and Compare Another Item of
\* the comparison result
OpenCompare ==
    /\ \/ appState = "inventory" /\ selectedBuild # None
       \/ appState = "compare-result" /\ comparisonAnalysis # None
    /\ scanMode' = "compare"
    /\ appState' = "camera"
    /\ mountCaptureView
    /\ UNCHANGED <<playerClass, buildMatches, selectedBuild, availableBuilds,
                   comparisonAnalysis, loads>>
    /\ UNCHANGED engineVars

\* Find Matching Builds: matchBuilds(gear, availableBuilds)
FindMatchingBuilds ==
    /\ appState = "inventory"
    /\ gearCount > 0
    /\ buildMatches' = Some(matchBuildsProfiles(userGear, availableBuilds))
    /\ appState' = "results"
    /\ UNCHANGED <<playerClass, scanMode, selectedBuild, availableBuilds,
                   comparisonAnalysis, loads>>
    /\ UNCHANGED <<engineVars, viewVars>>

\* onCancel of the capture view, and the back buttons of the two result views
BackToInventory ==
    /\ \/ appState = "camera" /\ ~isProcessing
       \/ appState \in {"results", "compare-result"}
    /\ appState' = "inventory"
    /\ UNCHANGED <<playerClass, buildMatches, scanMode, selectedBuild,
                   availableBuilds, comparisonAnalysis, loads>>
    /\ UNCHANGED <<engineVars, viewVars>>

InitApp == EngineIdle /\ AppIdle /\ ViewIdle

\* Classes are chosen and changed, gear is scanned and matched
NextLoad ==
    \/ HandleClassSelect
    \/ LoadSettles
    \/ ChangeClass
    \/ OpenScan
    \/ FindMatchingBuilds
    \/ BackToInventory
    \/ AddPreview
    \/ HandleConfirm
    \/ ItemCaptured
    \/ CaptureFailed

LoadSpec == InitApp /\ [][NextLoad]_vars

\* Classes are chosen and changed, a build is selected and items are compared
NextClass ==
    \/ HandleClassSelect
    \/ LoadSettles
    \/ ChangeClass
    \/ SelectBuild
    \/ OpenCompare
    \/ BackToInventory
    \/ AddPreview
    \/ HandleConfirm
    \/ CompareCaptured
    \/ CaptureFailed

ClassSpec == InitApp /\ [][NextClass]_vars

----------------------------------------------------------------------------
(* C28, C29: the builds and the selected build against the class             *)

\* every load started has stored its builds
RefAllLoaded == \A k \in 1..Len(loads) : loads[k].status = "loaded"

\* the build is one of the builds of the class
RefBuildOfClass(id, cls) ==
    \E k \in 1..Len(fetchBuilds(cls)) : fetchBuilds(cls)[k].id = id

\* C28: once all loads have settled (none of them failing), availableBuilds
\* holds the builds of the currently selected class, and the builds matched by
\* Find Matching Builds are builds of the currently selected class.
C28_BuildsOfSelectedClass ==
    /\ (playerClass # None /\ RefAllLoaded)
           => availableBuilds = loadedBuilds(Get(playerClass))
    /\ (buildMatches # None /\ RefAllLoaded)
           => /\ playerClass # None
              /\ \A k \in 1..Len(Get(buildMatches)) :
                     RefBuildOfClass(Get(buildMatches)[k].buildId, Get(playerClass))

\* the sorcerer's scanned gear was matched against the barbarian's builds,
\* stored by the load that settled last
C28_MatchedOtherClass ==
    /\ playerClass = Some("sorcerer")
    /\ RefAllLoaded
    /\ appState = "results"
    /\ gearCount > 0
    /\ Len(Get(buildMatches)) = 2
    /\ \A k \in 1..2 : RefBuildOfClass(Get(buildMatches)[k].buildId, "barbarian")

\* C29: whenever a compare-mode capture runs, selectedBuild is non-null and is
\* one of the builds of the currently selected class.
C29_SelectedBuildOfClass ==
    (awaiting /\ scanMode = "compare") =>
        /\ selectedBuild # None
        /\ playerClass # None
        /\ RefBuildOfClass(Get(selectedBuild).id, Get(playerClass))

\* a comparison was analysed for the sorcerer against the build selected when
\* the class was barbarian, with every load settled and the sorcerer's builds
\* on offer
C29_ComparedWithOtherClass ==
    /\ playerClass = Some("sorcerer")
    /\ RefAllLoaded
    /\ availableBuilds = loadedBuilds("sorcerer")
    /\ appState = "compare-result"
    /\ comparisonAnalysis # None
    /\ selectedBuild # None
    /\ RefBuildOfClass(Get(selectedBuild).id, "barbarian")

====
